---- MODULE Spec2Model ----
(***************************************************************************)
(* Model of backend/main.py: parse_prescription_text (the entry extractor) *)
(* and the /analyze handler analyze_prescription (the dosage assessment    *)
(* loop and the "No medications detected" fallback).                       *)
(*                                                                         *)
(* A Python str is modelled as the sequence of its characters, a character *)
(* as its Unicode code point, so that the regular expressions, split,      *)
(* strip, lower and capitalize are computed character by character, with   *)
(* the character classes and case mappings of Python's str (Unicode 14, as *)
(* in CPython 3.11).  The status of a record and the file extension are    *)
(* TLC strings.                                                            *)
(***************************************************************************)
EXTENDS Integers, Sequences, FiniteSets, TLC

(***************************************************************************)
(* Literals                                                                *)
(***************************************************************************)
\* the ASCII characters U+0020 to U+005F and U+0061 to U+007E, in order
AsciiLow == " !\"#$%&'()*+,-./0123456789:;<=>?@ABCDEFGHIJKLMNOPQRSTUVWXYZ[\\]^_"

AsciiHigh == "abcdefghijklmnopqrstuvwxyz{|}~"

\* the code point of an ASCII character
Char(ch) ==
  IF ch = "\n" THEN 10
  ELSE IF \E k \in 1..Len(AsciiLow) : SubSeq(AsciiLow, k, k) = ch
    THEN 31 + CHOOSE k \in 1..Len(AsciiLow) : SubSeq(AsciiLow, k, k) = ch
    ELSE 96 + CHOOSE k \in 1..Len(AsciiHigh) : SubSeq(AsciiHigh, k, k) = ch

\* a string literal of the source
Codes(str) == [k \in 1..Len(str) |-> Char(SubSeq(str, k, k))]

\* the characters the patterns and the formatting name
LineFeed == 10

Space == 32

FullStop == 46

Zero == 48

Colon == 58

\* "".join(ss)
RECURSIVE Concat(_)
Concat(ss) == IF ss = <<>> THEN <<>> ELSE Head(ss) \o Concat(Tail(ss))

(***************************************************************************)
(* The character classes and case mappings of str and re.  Each table is   *)
(* sorted and its rows <<first, last, ...>> are disjoint ranges of code    *)
(* points.                                                                 *)
(***************************************************************************)
\* within ASCII: the characters \s matches and str.strip() removes (str.isspace())
SpaceAscii ==
  << <<9, 13>>, <<28, 32>> >>

\* beyond ASCII: the characters \s matches and str.strip() removes (str.isspace())
SpaceBeyond ==
  << <<133, 133>>, <<160, 160>>, <<5760, 5760>>, <<8192, 8202>>, <<8232, 8233>>, <<8239, 8239>>,
     <<8287, 8287>>, <<12288, 12288>> >>

\* within ASCII: the characters \d matches (the decimal digits, category Nd), in runs of
\* ten: the digits 0 to 9 of one script in order (one run of fifty holds five
\* sets)
DigitAscii ==
  << <<48, 57>> >>

\* beyond ASCII: the characters \d matches (the decimal digits, category Nd), in runs of
\* ten: the digits 0 to 9 of one script in order (one run of fifty holds five
\* sets)
DigitBeyond ==
  << <<1632, 1641>>, <<1776, 1785>>, <<1984, 1993>>, <<2406, 2415>>, <<2534, 2543>>, <<2662, 2671>>,
     <<2790, 2799>>, <<2918, 2927>>, <<3046, 3055>>, <<3174, 3183>>, <<3302, 3311>>, <<3430, 3439>>,
     <<3558, 3567>>, <<3664, 3673>>, <<3792, 3801>>, <<3872, 3881>>, <<4160, 4169>>, <<4240, 4249>>,
     <<6112, 6121>>, <<6160, 6169>>, <<6470, 6479>>, <<6608, 6617>>, <<6784, 6793>>, <<6800, 6809>>,
     <<6992, 7001>>, <<7088, 7097>>, <<7232, 7241>>, <<7248, 7257>>, <<42528, 42537>>, <<43216, 43225>>,
     <<43264, 43273>>, <<43472, 43481>>, <<43504, 43513>>, <<43600, 43609>>, <<44016, 44025>>, <<65296, 65305>>,
     <<66720, 66729>>, <<68912, 68921>>, <<69734, 69743>>, <<69872, 69881>>, <<69942, 69951>>, <<70096, 70105>>,
     <<70384, 70393>>, <<70736, 70745>>, <<70864, 70873>>, <<71248, 71257>>, <<71360, 71369>>, <<71472, 71481>>,
     <<71904, 71913>>, <<72016, 72025>>, <<72784, 72793>>, <<73040, 73049>>, <<73120, 73129>>, <<92768, 92777>>,
     <<92864, 92873>>, <<93008, 93017>>, <<120782, 120831>>, <<123200, 123209>>, <<123632, 123641>>, <<125264, 125273>>,
     <<130032, 130041>> >>

\* within ASCII: the characters \w matches (str.isalnum() and the underscore)
WordAscii ==
  << <<48, 57>>, <<65, 90>>, <<95, 95>>, <<97, 122>> >>

\* beyond ASCII: the characters \w matches (str.isalnum() and the underscore)
WordBeyond ==
  << <<170, 170>>, <<178, 179>>, <<181, 181>>, <<185, 186>>, <<188, 190>>, <<192, 214>>,
     <<216, 246>>, <<248, 705>>, <<710, 721>>, <<736, 740>>, <<748, 748>>, <<750, 750>>,
     <<880, 884>>, <<886, 887>>, <<890, 893>>, <<895, 895>>, <<902, 902>>, <<904, 906>>,
     <<908, 908>>, <<910, 929>>, <<931, 1013>>, <<1015, 1153>>, <<1162, 1327>>, <<1329, 1366>>,
     <<1369, 1369>>, <<1376, 1416>>, <<1488, 1514>>, <<1519, 1522>>, <<1568, 1610>>, <<1632, 1641>>,
     <<1646, 1647>>, <<1649, 1747>>, <<1749, 1749>>, <<1765, 1766>>, <<1774, 1788>>, <<1791, 1791>>,
     <<1808, 1808>>, <<1810, 1839>>, <<1869, 1957>>, <<1969, 1969>>, <<1984, 2026>>, <<2036, 2037>>,
     <<2042, 2042>>, <<2048, 2069>>, <<2074, 2074>>, <<2084, 2084>>, <<2088, 2088>>, <<2112, 2136>>,
     <<2144, 2154>>, <<2160, 2183>>, <<2185, 2190>>, <<2208, 2249>>, <<2308, 2361>>, <<2365, 2365>>,
     <<2384, 2384>>, <<2392, 2401>>, <<2406, 2415>>, <<2417, 2432>>, <<2437, 2444>>, <<2447, 2448>>,
     <<2451, 2472>>, <<2474, 2480>>, <<2482, 2482>>, <<2486, 2489>>, <<2493, 2493>>, <<2510, 2510>>,
     <<2524, 2525>>, <<2527, 2529>>, <<2534, 2545>>, <<2548, 2553>>, <<2556, 2556>>, <<2565, 2570>>,
     <<2575, 2576>>, <<2579, 2600>>, <<2602, 2608>>, <<2610, 2611>>, <<2613, 2614>>, <<2616, 2617>>,
     <<2649, 2652>>, <<2654, 2654>>, <<2662, 2671>>, <<2674, 2676>>, <<2693, 2701>>, <<2703, 2705>>,
     <<2707, 2728>>, <<2730, 2736>>, <<2738, 2739>>, <<2741, 2745>>, <<2749, 2749>>, <<2768, 2768>>,
     <<2784, 2785>>, <<2790, 2799>>, <<2809, 2809>>, <<2821, 2828>>, <<2831, 2832>>, <<2835, 2856>>,
     <<2858, 2864>>, <<2866, 2867>>, <<2869, 2873>>, <<2877, 2877>>, <<2908, 2909>>, <<2911, 2913>>,
     <<2918, 2927>>, <<2929, 2935>>, <<2947, 2947>>, <<2949, 2954>>, <<2958, 2960>>, <<2962, 2965>>,
     <<2969, 2970>>, <<2972, 2972>>, <<2974, 2975>>, <<2979, 2980>>, <<2984, 2986>>, <<2990, 3001>>,
     <<3024, 3024>>, <<3046, 3058>>, <<3077, 3084>>, <<3086, 3088>>, <<3090, 3112>>, <<3114, 3129>>,
     <<3133, 3133>>, <<3160, 3162>>, <<3165, 3165>>, <<3168, 3169>>, <<3174, 3183>>, <<3192, 3198>>,
     <<3200, 3200>>, <<3205, 3212>>, <<3214, 3216>>, <<3218, 3240>>, <<3242, 3251>>, <<3253, 3257>>,
     <<3261, 3261>>, <<3293, 3294>>, <<3296, 3297>>, <<3302, 3311>>, <<3313, 3314>>, <<3332, 3340>>,
     <<3342, 3344>>, <<3346, 3386>>, <<3389, 3389>>, <<3406, 3406>>, <<3412, 3414>>, <<3416, 3425>>,
     <<3430, 3448>>, <<3450, 3455>>, <<3461, 3478>>, <<3482, 3505>>, <<3507, 3515>>, <<3517, 3517>>,
     <<3520, 3526>>, <<3558, 3567>>, <<3585, 3632>>, <<3634, 3635>>, <<3648, 3654>>, <<3664, 3673>>,
     <<3713, 3714>>, <<3716, 3716>>, <<3718, 3722>>, <<3724, 3747>>, <<3749, 3749>>, <<3751, 3760>>,
     <<3762, 3763>>, <<3773, 3773>>, <<3776, 3780>>, <<3782, 3782>>, <<3792, 3801>>, <<3804, 3807>>,
     <<3840, 3840>>, <<3872, 3891>>, <<3904, 3911>>, <<3913, 3948>>, <<3976, 3980>>, <<4096, 4138>>,
     <<4159, 4169>>, <<4176, 4181>>, <<4186, 4189>>, <<4193, 4193>>, <<4197, 4198>>, <<4206, 4208>>,
     <<4213, 4225>>, <<4238, 4238>>, <<4240, 4249>>, <<4256, 4293>>, <<4295, 4295>>, <<4301, 4301>>,
     <<4304, 4346>>, <<4348, 4680>>, <<4682, 4685>>, <<4688, 4694>>, <<4696, 4696>>, <<4698, 4701>>,
     <<4704, 4744>>, <<4746, 4749>>, <<4752, 4784>>, <<4786, 4789>>, <<4792, 4798>>, <<4800, 4800>>,
     <<4802, 4805>>, <<4808, 4822>>, <<4824, 4880>>, <<4882, 4885>>, <<4888, 4954>>, <<4969, 4988>>,
     <<4992, 5007>>, <<5024, 5109>>, <<5112, 5117>>, <<5121, 5740>>, <<5743, 5759>>, <<5761, 5786>>,
     <<5792, 5866>>, <<5870, 5880>>, <<5888, 5905>>, <<5919, 5937>>, <<5952, 5969>>, <<5984, 5996>>,
     <<5998, 6000>>, <<6016, 6067>>, <<6103, 6103>>, <<6108, 6108>>, <<6112, 6121>>, <<6128, 6137>>,
     <<6160, 6169>>, <<6176, 6264>>, <<6272, 6276>>, <<6279, 6312>>, <<6314, 6314>>, <<6320, 6389>>,
     <<6400, 6430>>, <<6470, 6509>>, <<6512, 6516>>, <<6528, 6571>>, <<6576, 6601>>, <<6608, 6618>>,
     <<6656, 6678>>, <<6688, 6740>>, <<6784, 6793>>, <<6800, 6809>>, <<6823, 6823>>, <<6917, 6963>>,
     <<6981, 6988>>, <<6992, 7001>>, <<7043, 7072>>, <<7086, 7141>>, <<7168, 7203>>, <<7232, 7241>>,
     <<7245, 7293>>, <<7296, 7304>>, <<7312, 7354>>, <<7357, 7359>>, <<7401, 7404>>, <<7406, 7411>>,
     <<7413, 7414>>, <<7418, 7418>>, <<7424, 7615>>, <<7680, 7957>>, <<7960, 7965>>, <<7968, 8005>>,
     <<8008, 8013>>, <<8016, 8023>>, <<8025, 8025>>, <<8027, 8027>>, <<8029, 8029>>, <<8031, 8061>>,
     <<8064, 8116>>, <<8118, 8124>>, <<8126, 8126>>, <<8130, 8132>>, <<8134, 8140>>, <<8144, 8147>>,
     <<8150, 8155>>, <<8160, 8172>>, <<8178, 8180>>, <<8182, 8188>>, <<8304, 8305>>, <<8308, 8313>>,
     <<8319, 8329>>, <<8336, 8348>>, <<8450, 8450>>, <<8455, 8455>>, <<8458, 8467>>, <<8469, 8469>>,
     <<8473, 8477>>, <<8484, 8484>>, <<8486, 8486>>, <<8488, 8488>>, <<8490, 8493>>, <<8495, 8505>>,
     <<8508, 8511>>, <<8517, 8521>>, <<8526, 8526>>, <<8528, 8585>>, <<9312, 9371>>, <<9450, 9471>>,
     <<10102, 10131>>, <<11264, 11492>>, <<11499, 11502>>, <<11506, 11507>>, <<11517, 11517>>, <<11520, 11557>>,
     <<11559, 11559>>, <<11565, 11565>>, <<11568, 11623>>, <<11631, 11631>>, <<11648, 11670>>, <<11680, 11686>>,
     <<11688, 11694>>, <<11696, 11702>>, <<11704, 11710>>, <<11712, 11718>>, <<11720, 11726>>, <<11728, 11734>>,
     <<11736, 11742>>, <<11823, 11823>>, <<12293, 12295>>, <<12321, 12329>>, <<12337, 12341>>, <<12344, 12348>>,
     <<12353, 12438>>, <<12445, 12447>>, <<12449, 12538>>, <<12540, 12543>>, <<12549, 12591>>, <<12593, 12686>>,
     <<12690, 12693>>, <<12704, 12735>>, <<12784, 12799>>, <<12832, 12841>>, <<12872, 12879>>, <<12881, 12895>>,
     <<12928, 12937>>, <<12977, 12991>>, <<13312, 19903>>, <<19968, 42124>>, <<42192, 42237>>, <<42240, 42508>>,
     <<42512, 42539>>, <<42560, 42606>>, <<42623, 42653>>, <<42656, 42735>>, <<42775, 42783>>, <<42786, 42888>>,
     <<42891, 42954>>, <<42960, 42961>>, <<42963, 42963>>, <<42965, 42969>>, <<42994, 43009>>, <<43011, 43013>>,
     <<43015, 43018>>, <<43020, 43042>>, <<43056, 43061>>, <<43072, 43123>>, <<43138, 43187>>, <<43216, 43225>>,
     <<43250, 43255>>, <<43259, 43259>>, <<43261, 43262>>, <<43264, 43301>>, <<43312, 43334>>, <<43360, 43388>>,
     <<43396, 43442>>, <<43471, 43481>>, <<43488, 43492>>, <<43494, 43518>>, <<43520, 43560>>, <<43584, 43586>>,
     <<43588, 43595>>, <<43600, 43609>>, <<43616, 43638>>, <<43642, 43642>>, <<43646, 43695>>, <<43697, 43697>>,
     <<43701, 43702>>, <<43705, 43709>>, <<43712, 43712>>, <<43714, 43714>>, <<43739, 43741>>, <<43744, 43754>>,
     <<43762, 43764>>, <<43777, 43782>>, <<43785, 43790>>, <<43793, 43798>>, <<43808, 43814>>, <<43816, 43822>>,
     <<43824, 43866>>, <<43868, 43881>>, <<43888, 44002>>, <<44016, 44025>>, <<44032, 55203>>, <<55216, 55238>>,
     <<55243, 55291>>, <<63744, 64109>>, <<64112, 64217>>, <<64256, 64262>>, <<64275, 64279>>, <<64285, 64285>>,
     <<64287, 64296>>, <<64298, 64310>>, <<64312, 64316>>, <<64318, 64318>>, <<64320, 64321>>, <<64323, 64324>>,
     <<64326, 64433>>, <<64467, 64829>>, <<64848, 64911>>, <<64914, 64967>>, <<65008, 65019>>, <<65136, 65140>>,
     <<65142, 65276>>, <<65296, 65305>>, <<65313, 65338>>, <<65345, 65370>>, <<65382, 65470>>, <<65474, 65479>>,
     <<65482, 65487>>, <<65490, 65495>>, <<65498, 65500>>, <<65536, 65547>>, <<65549, 65574>>, <<65576, 65594>>,
     <<65596, 65597>>, <<65599, 65613>>, <<65616, 65629>>, <<65664, 65786>>, <<65799, 65843>>, <<65856, 65912>>,
     <<65930, 65931>>, <<66176, 66204>>, <<66208, 66256>>, <<66273, 66299>>, <<66304, 66339>>, <<66349, 66378>>,
     <<66384, 66421>>, <<66432, 66461>>, <<66464, 66499>>, <<66504, 66511>>, <<66513, 66517>>, <<66560, 66717>>,
     <<66720, 66729>>, <<66736, 66771>>, <<66776, 66811>>, <<66816, 66855>>, <<66864, 66915>>, <<66928, 66938>>,
     <<66940, 66954>>, <<66956, 66962>>, <<66964, 66965>>, <<66967, 66977>>, <<66979, 66993>>, <<66995, 67001>>,
     <<67003, 67004>>, <<67072, 67382>>, <<67392, 67413>>, <<67424, 67431>>, <<67456, 67461>>, <<67463, 67504>>,
     <<67506, 67514>>, <<67584, 67589>>, <<67592, 67592>>, <<67594, 67637>>, <<67639, 67640>>, <<67644, 67644>>,
     <<67647, 67669>>, <<67672, 67702>>, <<67705, 67742>>, <<67751, 67759>>, <<67808, 67826>>, <<67828, 67829>>,
     <<67835, 67867>>, <<67872, 67897>>, <<67968, 68023>>, <<68028, 68047>>, <<68050, 68096>>, <<68112, 68115>>,
     <<68117, 68119>>, <<68121, 68149>>, <<68160, 68168>>, <<68192, 68222>>, <<68224, 68255>>, <<68288, 68295>>,
     <<68297, 68324>>, <<68331, 68335>>, <<68352, 68405>>, <<68416, 68437>>, <<68440, 68466>>, <<68472, 68497>>,
     <<68521, 68527>>, <<68608, 68680>>, <<68736, 68786>>, <<68800, 68850>>, <<68858, 68899>>, <<68912, 68921>>,
     <<69216, 69246>>, <<69248, 69289>>, <<69296, 69297>>, <<69376, 69415>>, <<69424, 69445>>, <<69457, 69460>>,
     <<69488, 69505>>, <<69552, 69579>>, <<69600, 69622>>, <<69635, 69687>>, <<69714, 69743>>, <<69745, 69746>>,
     <<69749, 69749>>, <<69763, 69807>>, <<69840, 69864>>, <<69872, 69881>>, <<69891, 69926>>, <<69942, 69951>>,
     <<69956, 69956>>, <<69959, 69959>>, <<69968, 70002>>, <<70006, 70006>>, <<70019, 70066>>, <<70081, 70084>>,
     <<70096, 70106>>, <<70108, 70108>>, <<70113, 70132>>, <<70144, 70161>>, <<70163, 70187>>, <<70272, 70278>>,
     <<70280, 70280>>, <<70282, 70285>>, <<70287, 70301>>, <<70303, 70312>>, <<70320, 70366>>, <<70384, 70393>>,
     <<70405, 70412>>, <<70415, 70416>>, <<70419, 70440>>, <<70442, 70448>>, <<70450, 70451>>, <<70453, 70457>>,
     <<70461, 70461>>, <<70480, 70480>>, <<70493, 70497>>, <<70656, 70708>>, <<70727, 70730>>, <<70736, 70745>>,
     <<70751, 70753>>, <<70784, 70831>>, <<70852, 70853>>, <<70855, 70855>>, <<70864, 70873>>, <<71040, 71086>>,
     <<71128, 71131>>, <<71168, 71215>>, <<71236, 71236>>, <<71248, 71257>>, <<71296, 71338>>, <<71352, 71352>>,
     <<71360, 71369>>, <<71424, 71450>>, <<71472, 71483>>, <<71488, 71494>>, <<71680, 71723>>, <<71840, 71922>>,
     <<71935, 71942>>, <<71945, 71945>>, <<71948, 71955>>, <<71957, 71958>>, <<71960, 71983>>, <<71999, 71999>>,
     <<72001, 72001>>, <<72016, 72025>>, <<72096, 72103>>, <<72106, 72144>>, <<72161, 72161>>, <<72163, 72163>>,
     <<72192, 72192>>, <<72203, 72242>>, <<72250, 72250>>, <<72272, 72272>>, <<72284, 72329>>, <<72349, 72349>>,
     <<72368, 72440>>, <<72704, 72712>>, <<72714, 72750>>, <<72768, 72768>>, <<72784, 72812>>, <<72818, 72847>>,
     <<72960, 72966>>, <<72968, 72969>>, <<72971, 73008>>, <<73030, 73030>>, <<73040, 73049>>, <<73056, 73061>>,
     <<73063, 73064>>, <<73066, 73097>>, <<73112, 73112>>, <<73120, 73129>>, <<73440, 73458>>, <<73648, 73648>>,
     <<73664, 73684>>, <<73728, 74649>>, <<74752, 74862>>, <<74880, 75075>>, <<77712, 77808>>, <<77824, 78894>>,
     <<82944, 83526>>, <<92160, 92728>>, <<92736, 92766>>, <<92768, 92777>>, <<92784, 92862>>, <<92864, 92873>>,
     <<92880, 92909>>, <<92928, 92975>>, <<92992, 92995>>, <<93008, 93017>>, <<93019, 93025>>, <<93027, 93047>>,
     <<93053, 93071>>, <<93760, 93846>>, <<93952, 94026>>, <<94032, 94032>>, <<94099, 94111>>, <<94176, 94177>>,
     <<94179, 94179>>, <<94208, 100343>>, <<100352, 101589>>, <<101632, 101640>>, <<110576, 110579>>, <<110581, 110587>>,
     <<110589, 110590>>, <<110592, 110882>>, <<110928, 110930>>, <<110948, 110951>>, <<110960, 111355>>, <<113664, 113770>>,
     <<113776, 113788>>, <<113792, 113800>>, <<113808, 113817>>, <<119520, 119539>>, <<119648, 119672>>, <<119808, 119892>>,
     <<119894, 119964>>, <<119966, 119967>>, <<119970, 119970>>, <<119973, 119974>>, <<119977, 119980>>, <<119982, 119993>>,
     <<119995, 119995>>, <<119997, 120003>>, <<120005, 120069>>, <<120071, 120074>>, <<120077, 120084>>, <<120086, 120092>>,
     <<120094, 120121>>, <<120123, 120126>>, <<120128, 120132>>, <<120134, 120134>>, <<120138, 120144>>, <<120146, 120485>>,
     <<120488, 120512>>, <<120514, 120538>>, <<120540, 120570>>, <<120572, 120596>>, <<120598, 120628>>, <<120630, 120654>>,
     <<120656, 120686>>, <<120688, 120712>>, <<120714, 120744>>, <<120746, 120770>>, <<120772, 120779>>, <<120782, 120831>>,
     <<122624, 122654>>, <<123136, 123180>>, <<123191, 123197>>, <<123200, 123209>>, <<123214, 123214>>, <<123536, 123565>>,
     <<123584, 123627>>, <<123632, 123641>>, <<124896, 124902>>, <<124904, 124907>>, <<124909, 124910>>, <<124912, 124926>>,
     <<124928, 125124>>, <<125127, 125135>>, <<125184, 125251>>, <<125259, 125259>>, <<125264, 125273>>, <<126065, 126123>>,
     <<126125, 126127>>, <<126129, 126132>>, <<126209, 126253>>, <<126255, 126269>>, <<126464, 126467>>, <<126469, 126495>>,
     <<126497, 126498>>, <<126500, 126500>>, <<126503, 126503>>, <<126505, 126514>>, <<126516, 126519>>, <<126521, 126521>>,
     <<126523, 126523>>, <<126530, 126530>>, <<126535, 126535>>, <<126537, 126537>>, <<126539, 126539>>, <<126541, 126543>>,
     <<126545, 126546>>, <<126548, 126548>>, <<126551, 126551>>, <<126553, 126553>>, <<126555, 126555>>, <<126557, 126557>>,
     <<126559, 126559>>, <<126561, 126562>>, <<126564, 126564>>, <<126567, 126570>>, <<126572, 126578>>, <<126580, 126583>>,
     <<126585, 126588>>, <<126590, 126590>>, <<126592, 126601>>, <<126603, 126619>>, <<126625, 126627>>, <<126629, 126633>>,
     <<126635, 126651>>, <<127232, 127244>>, <<130032, 130041>>, <<131072, 173791>>, <<173824, 177976>>, <<177984, 178205>>,
     <<178208, 183969>>, <<183984, 191456>>, <<194560, 195101>>, <<196608, 201546>> >>

\* within ASCII: str.lower() of one character, where it is one other character:
\* <<first, last, step, offset>> maps first, first+step, ... last to itself +
\* offset
LowerAscii ==
  << <<65, 90, 1, 32>> >>

\* beyond ASCII: str.lower() of one character, where it is one other character:
\* <<first, last, step, offset>> maps first, first+step, ... last to itself +
\* offset
LowerBeyond ==
  << <<192, 214, 1, 32>>, <<216, 222, 1, 32>>, <<256, 302, 2, 1>>, <<306, 310, 2, 1>>,
     <<313, 327, 2, 1>>, <<330, 374, 2, 1>>, <<376, 376, 1, -121>>, <<377, 381, 2, 1>>,
     <<385, 385, 1, 210>>, <<386, 388, 2, 1>>, <<390, 390, 1, 206>>, <<391, 391, 1, 1>>,
     <<393, 394, 1, 205>>, <<395, 395, 1, 1>>, <<398, 398, 1, 79>>, <<399, 399, 1, 202>>,
     <<400, 400, 1, 203>>, <<401, 401, 1, 1>>, <<403, 403, 1, 205>>, <<404, 404, 1, 207>>,
     <<406, 406, 1, 211>>, <<407, 407, 1, 209>>, <<408, 408, 1, 1>>, <<412, 412, 1, 211>>,
     <<413, 413, 1, 213>>, <<415, 415, 1, 214>>, <<416, 420, 2, 1>>, <<422, 422, 1, 218>>,
     <<423, 423, 1, 1>>, <<425, 425, 1, 218>>, <<428, 428, 1, 1>>, <<430, 430, 1, 218>>,
     <<431, 431, 1, 1>>, <<433, 434, 1, 217>>, <<435, 437, 2, 1>>, <<439, 439, 1, 219>>,
     <<440, 440, 1, 1>>, <<444, 444, 1, 1>>, <<452, 452, 1, 2>>, <<453, 453, 1, 1>>,
     <<455, 455, 1, 2>>, <<456, 456, 1, 1>>, <<458, 458, 1, 2>>, <<459, 475, 2, 1>>,
     <<478, 494, 2, 1>>, <<497, 497, 1, 2>>, <<498, 500, 2, 1>>, <<502, 502, 1, -97>>,
     <<503, 503, 1, -56>>, <<504, 542, 2, 1>>, <<544, 544, 1, -130>>, <<546, 562, 2, 1>>,
     <<570, 570, 1, 10795>>, <<571, 571, 1, 1>>, <<573, 573, 1, -163>>, <<574, 574, 1, 10792>>,
     <<577, 577, 1, 1>>, <<579, 579, 1, -195>>, <<580, 580, 1, 69>>, <<581, 581, 1, 71>>,
     <<582, 590, 2, 1>>, <<880, 882, 2, 1>>, <<886, 886, 1, 1>>, <<895, 895, 1, 116>>,
     <<902, 902, 1, 38>>, <<904, 906, 1, 37>>, <<908, 908, 1, 64>>, <<910, 911, 1, 63>>,
     <<913, 929, 1, 32>>, <<931, 939, 1, 32>>, <<975, 975, 1, 8>>, <<984, 1006, 2, 1>>,
     <<1012, 1012, 1, -60>>, <<1015, 1015, 1, 1>>, <<1017, 1017, 1, -7>>, <<1018, 1018, 1, 1>>,
     <<1021, 1023, 1, -130>>, <<1024, 1039, 1, 80>>, <<1040, 1071, 1, 32>>, <<1120, 1152, 2, 1>>,
     <<1162, 1214, 2, 1>>, <<1216, 1216, 1, 15>>, <<1217, 1229, 2, 1>>, <<1232, 1326, 2, 1>>,
     <<1329, 1366, 1, 48>>, <<4256, 4293, 1, 7264>>, <<4295, 4295, 1, 7264>>, <<4301, 4301, 1, 7264>>,
     <<5024, 5103, 1, 38864>>, <<5104, 5109, 1, 8>>, <<7312, 7354, 1, -3008>>, <<7357, 7359, 1, -3008>>,
     <<7680, 7828, 2, 1>>, <<7838, 7838, 1, -7615>>, <<7840, 7934, 2, 1>>, <<7944, 7951, 1, -8>>,
     <<7960, 7965, 1, -8>>, <<7976, 7983, 1, -8>>, <<7992, 7999, 1, -8>>, <<8008, 8013, 1, -8>>,
     <<8025, 8031, 2, -8>>, <<8040, 8047, 1, -8>>, <<8072, 8079, 1, -8>>, <<8088, 8095, 1, -8>>,
     <<8104, 8111, 1, -8>>, <<8120, 8121, 1, -8>>, <<8122, 8123, 1, -74>>, <<8124, 8124, 1, -9>>,
     <<8136, 8139, 1, -86>>, <<8140, 8140, 1, -9>>, <<8152, 8153, 1, -8>>, <<8154, 8155, 1, -100>>,
     <<8168, 8169, 1, -8>>, <<8170, 8171, 1, -112>>, <<8172, 8172, 1, -7>>, <<8184, 8185, 1, -128>>,
     <<8186, 8187, 1, -126>>, <<8188, 8188, 1, -9>>, <<8486, 8486, 1, -7517>>, <<8490, 8490, 1, -8383>>,
     <<8491, 8491, 1, -8262>>, <<8498, 8498, 1, 28>>, <<8544, 8559, 1, 16>>, <<8579, 8579, 1, 1>>,
     <<9398, 9423, 1, 26>>, <<11264, 11311, 1, 48>>, <<11360, 11360, 1, 1>>, <<11362, 11362, 1, -10743>>,
     <<11363, 11363, 1, -3814>>, <<11364, 11364, 1, -10727>>, <<11367, 11371, 2, 1>>, <<11373, 11373, 1, -10780>>,
     <<11374, 11374, 1, -10749>>, <<11375, 11375, 1, -10783>>, <<11376, 11376, 1, -10782>>, <<11378, 11378, 1, 1>>,
     <<11381, 11381, 1, 1>>, <<11390, 11391, 1, -10815>>, <<11392, 11490, 2, 1>>, <<11499, 11501, 2, 1>>,
     <<11506, 11506, 1, 1>>, <<42560, 42604, 2, 1>>, <<42624, 42650, 2, 1>>, <<42786, 42798, 2, 1>>,
     <<42802, 42862, 2, 1>>, <<42873, 42875, 2, 1>>, <<42877, 42877, 1, -35332>>, <<42878, 42886, 2, 1>>,
     <<42891, 42891, 1, 1>>, <<42893, 42893, 1, -42280>>, <<42896, 42898, 2, 1>>, <<42902, 42920, 2, 1>>,
     <<42922, 42922, 1, -42308>>, <<42923, 42923, 1, -42319>>, <<42924, 42924, 1, -42315>>, <<42925, 42925, 1, -42305>>,
     <<42926, 42926, 1, -42308>>, <<42928, 42928, 1, -42258>>, <<42929, 42929, 1, -42282>>, <<42930, 42930, 1, -42261>>,
     <<42931, 42931, 1, 928>>, <<42932, 42946, 2, 1>>, <<42948, 42948, 1, -48>>, <<42949, 42949, 1, -42307>>,
     <<42950, 42950, 1, -35384>>, <<42951, 42953, 2, 1>>, <<42960, 42960, 1, 1>>, <<42966, 42968, 2, 1>>,
     <<42997, 42997, 1, 1>>, <<65313, 65338, 1, 32>>, <<66560, 66599, 1, 40>>, <<66736, 66771, 1, 40>>,
     <<66928, 66928, 1, 39>>, <<66929, 66938, 1, 39>>, <<66940, 66954, 1, 39>>, <<66956, 66962, 1, 39>>,
     <<66964, 66965, 1, 39>>, <<68736, 68786, 1, 64>>, <<71840, 71871, 1, 32>>, <<93760, 93791, 1, 32>>,
     <<125184, 125217, 1, 34>> >>

\* str.lower() of one character, where it is more than one character:
\* <<c, c, the characters>>
LowerSpecial ==
  << <<304, 304, <<105, 775>> >> >>

\* within ASCII: the title case of one character (what str.capitalize() makes of the first
\* character), where it is one other character; rows as in LowerAscii
TitleAscii ==
  << <<97, 122, 1, -32>> >>

\* beyond ASCII: the title case of one character (what str.capitalize() makes of the first
\* character), where it is one other character; rows as in LowerAscii
TitleBeyond ==
  << <<181, 181, 1, 743>>, <<224, 246, 1, -32>>, <<248, 254, 1, -32>>, <<255, 255, 1, 121>>,
     <<257, 303, 2, -1>>, <<305, 305, 1, -232>>, <<307, 311, 2, -1>>, <<314, 328, 2, -1>>,
     <<331, 375, 2, -1>>, <<378, 382, 2, -1>>, <<383, 383, 1, -300>>, <<384, 384, 1, 195>>,
     <<387, 389, 2, -1>>, <<392, 392, 1, -1>>, <<396, 396, 1, -1>>, <<402, 402, 1, -1>>,
     <<405, 405, 1, 97>>, <<409, 409, 1, -1>>, <<410, 410, 1, 163>>, <<414, 414, 1, 130>>,
     <<417, 421, 2, -1>>, <<424, 424, 1, -1>>, <<429, 429, 1, -1>>, <<432, 432, 1, -1>>,
     <<436, 438, 2, -1>>, <<441, 441, 1, -1>>, <<445, 445, 1, -1>>, <<447, 447, 1, 56>>,
     <<452, 452, 1, 1>>, <<454, 454, 1, -1>>, <<455, 455, 1, 1>>, <<457, 457, 1, -1>>,
     <<458, 458, 1, 1>>, <<460, 476, 2, -1>>, <<477, 477, 1, -79>>, <<479, 495, 2, -1>>,
     <<497, 497, 1, 1>>, <<499, 501, 2, -1>>, <<505, 543, 2, -1>>, <<547, 563, 2, -1>>,
     <<572, 572, 1, -1>>, <<575, 576, 1, 10815>>, <<578, 578, 1, -1>>, <<583, 591, 2, -1>>,
     <<592, 592, 1, 10783>>, <<593, 593, 1, 10780>>, <<594, 594, 1, 10782>>, <<595, 595, 1, -210>>,
     <<596, 596, 1, -206>>, <<598, 599, 1, -205>>, <<601, 601, 1, -202>>, <<603, 603, 1, -203>>,
     <<604, 604, 1, 42319>>, <<608, 608, 1, -205>>, <<609, 609, 1, 42315>>, <<611, 611, 1, -207>>,
     <<613, 613, 1, 42280>>, <<614, 614, 1, 42308>>, <<616, 616, 1, -209>>, <<617, 617, 1, -211>>,
     <<618, 618, 1, 42308>>, <<619, 619, 1, 10743>>, <<620, 620, 1, 42305>>, <<623, 623, 1, -211>>,
     <<625, 625, 1, 10749>>, <<626, 626, 1, -213>>, <<629, 629, 1, -214>>, <<637, 637, 1, 10727>>,
     <<640, 640, 1, -218>>, <<642, 642, 1, 42307>>, <<643, 643, 1, -218>>, <<647, 647, 1, 42282>>,
     <<648, 648, 1, -218>>, <<649, 649, 1, -69>>, <<650, 651, 1, -217>>, <<652, 652, 1, -71>>,
     <<658, 658, 1, -219>>, <<669, 669, 1, 42261>>, <<670, 670, 1, 42258>>, <<837, 837, 1, 84>>,
     <<881, 883, 2, -1>>, <<887, 887, 1, -1>>, <<891, 893, 1, 130>>, <<940, 940, 1, -38>>,
     <<941, 943, 1, -37>>, <<945, 961, 1, -32>>, <<962, 962, 1, -31>>, <<963, 971, 1, -32>>,
     <<972, 972, 1, -64>>, <<973, 974, 1, -63>>, <<976, 976, 1, -62>>, <<977, 977, 1, -57>>,
     <<981, 981, 1, -47>>, <<982, 982, 1, -54>>, <<983, 983, 1, -8>>, <<985, 1007, 2, -1>>,
     <<1008, 1008, 1, -86>>, <<1009, 1009, 1, -80>>, <<1010, 1010, 1, 7>>, <<1011, 1011, 1, -116>>,
     <<1013, 1013, 1, -96>>, <<1016, 1016, 1, -1>>, <<1019, 1019, 1, -1>>, <<1072, 1103, 1, -32>>,
     <<1104, 1119, 1, -80>>, <<1121, 1153, 2, -1>>, <<1163, 1215, 2, -1>>, <<1218, 1230, 2, -1>>,
     <<1231, 1231, 1, -15>>, <<1233, 1327, 2, -1>>, <<1377, 1414, 1, -48>>, <<5112, 5117, 1, -8>>,
     <<7296, 7296, 1, -6254>>, <<7297, 7297, 1, -6253>>, <<7298, 7298, 1, -6244>>, <<7299, 7300, 1, -6242>>,
     <<7301, 7301, 1, -6243>>, <<7302, 7302, 1, -6236>>, <<7303, 7303, 1, -6181>>, <<7304, 7304, 1, 35266>>,
     <<7545, 7545, 1, 35332>>, <<7549, 7549, 1, 3814>>, <<7566, 7566, 1, 35384>>, <<7681, 7829, 2, -1>>,
     <<7835, 7835, 1, -59>>, <<7841, 7935, 2, -1>>, <<7936, 7943, 1, 8>>, <<7952, 7957, 1, 8>>,
     <<7968, 7975, 1, 8>>, <<7984, 7991, 1, 8>>, <<8000, 8005, 1, 8>>, <<8017, 8023, 2, 8>>,
     <<8032, 8039, 1, 8>>, <<8048, 8049, 1, 74>>, <<8050, 8053, 1, 86>>, <<8054, 8055, 1, 100>>,
     <<8056, 8057, 1, 128>>, <<8058, 8059, 1, 112>>, <<8060, 8061, 1, 126>>, <<8064, 8071, 1, 8>>,
     <<8080, 8087, 1, 8>>, <<8096, 8103, 1, 8>>, <<8112, 8113, 1, 8>>, <<8115, 8115, 1, 9>>,
     <<8126, 8126, 1, -7205>>, <<8131, 8131, 1, 9>>, <<8144, 8145, 1, 8>>, <<8160, 8161, 1, 8>>,
     <<8165, 8165, 1, 7>>, <<8179, 8179, 1, 9>>, <<8526, 8526, 1, -28>>, <<8560, 8575, 1, -16>>,
     <<8580, 8580, 1, -1>>, <<9424, 9449, 1, -26>>, <<11312, 11359, 1, -48>>, <<11361, 11361, 1, -1>>,
     <<11365, 11365, 1, -10795>>, <<11366, 11366, 1, -10792>>, <<11368, 11372, 2, -1>>, <<11379, 11379, 1, -1>>,
     <<11382, 11382, 1, -1>>, <<11393, 11491, 2, -1>>, <<11500, 11502, 2, -1>>, <<11507, 11507, 1, -1>>,
     <<11520, 11557, 1, -7264>>, <<11559, 11559, 1, -7264>>, <<11565, 11565, 1, -7264>>, <<42561, 42605, 2, -1>>,
     <<42625, 42651, 2, -1>>, <<42787, 42799, 2, -1>>, <<42803, 42863, 2, -1>>, <<42874, 42876, 2, -1>>,
     <<42879, 42887, 2, -1>>, <<42892, 42892, 1, -1>>, <<42897, 42899, 2, -1>>, <<42900, 42900, 1, 48>>,
     <<42903, 42921, 2, -1>>, <<42933, 42947, 2, -1>>, <<42952, 42954, 2, -1>>, <<42961, 42961, 1, -1>>,
     <<42967, 42969, 2, -1>>, <<42998, 42998, 1, -1>>, <<43859, 43859, 1, -928>>, <<43888, 43967, 1, -38864>>,
     <<65345, 65370, 1, -32>>, <<66600, 66639, 1, -40>>, <<66776, 66811, 1, -40>>, <<66967, 66967, 1, -39>>,
     <<66968, 66977, 1, -39>>, <<66979, 66993, 1, -39>>, <<66995, 67001, 1, -39>>, <<67003, 67004, 1, -39>>,
     <<68800, 68850, 1, -64>>, <<71872, 71903, 1, -32>>, <<93792, 93823, 1, -32>>, <<125218, 125251, 1, -34>> >>

\* the title case of one character, where it is more than one character:
\* <<c, c, the characters>>
TitleSpecial ==
  << <<223, 223, <<83, 115>> >>, <<329, 329, <<700, 78>> >>, <<496, 496, <<74, 780>> >>,
     <<912, 912, <<921, 776, 769>> >>, <<944, 944, <<933, 776, 769>> >>, <<1415, 1415, <<1333, 1410>> >>,
     <<7830, 7830, <<72, 817>> >>, <<7831, 7831, <<84, 776>> >>, <<7832, 7832, <<87, 778>> >>,
     <<7833, 7833, <<89, 778>> >>, <<7834, 7834, <<65, 702>> >>, <<8016, 8016, <<933, 787>> >>,
     <<8018, 8018, <<933, 787, 768>> >>, <<8020, 8020, <<933, 787, 769>> >>, <<8022, 8022, <<933, 787, 834>> >>,
     <<8114, 8114, <<8122, 837>> >>, <<8116, 8116, <<902, 837>> >>, <<8118, 8118, <<913, 834>> >>,
     <<8119, 8119, <<913, 834, 837>> >>, <<8130, 8130, <<8138, 837>> >>, <<8132, 8132, <<905, 837>> >>,
     <<8134, 8134, <<919, 834>> >>, <<8135, 8135, <<919, 834, 837>> >>, <<8146, 8146, <<921, 776, 768>> >>,
     <<8147, 8147, <<921, 776, 769>> >>, <<8150, 8150, <<921, 834>> >>, <<8151, 8151, <<921, 776, 834>> >>,
     <<8162, 8162, <<933, 776, 768>> >>, <<8163, 8163, <<933, 776, 769>> >>, <<8164, 8164, <<929, 787>> >>,
     <<8166, 8166, <<933, 834>> >>, <<8167, 8167, <<933, 776, 834>> >>, <<8178, 8178, <<8186, 837>> >>,
     <<8180, 8180, <<911, 837>> >>, <<8182, 8182, <<937, 834>> >>, <<8183, 8183, <<937, 834, 837>> >>,
     <<64256, 64256, <<70, 102>> >>, <<64257, 64257, <<70, 105>> >>, <<64258, 64258, <<70, 108>> >>,
     <<64259, 64259, <<70, 102, 105>> >>, <<64260, 64260, <<70, 102, 108>> >>, <<64261, 64261, <<83, 116>> >>,
     <<64262, 64262, <<83, 116>> >>, <<64275, 64275, <<1348, 1398>> >>, <<64276, 64276, <<1348, 1381>> >>,
     <<64277, 64277, <<1348, 1387>> >>, <<64278, 64278, <<1358, 1398>> >>, <<64279, 64279, <<1348, 1389>> >> >>

\* the case-ignorable characters, which the final-sigma rule of str.lower() skips
CaseIgnorableRanges ==
  << <<39, 39>>, <<46, 46>>, <<58, 58>>, <<94, 94>>, <<96, 96>>, <<168, 168>>,
     <<173, 173>>, <<175, 175>>, <<180, 180>>, <<183, 184>>, <<688, 879>>, <<884, 885>>,
     <<890, 890>>, <<900, 901>>, <<903, 903>>, <<1155, 1161>>, <<1369, 1369>>, <<1375, 1375>>,
     <<1425, 1469>>, <<1471, 1471>>, <<1473, 1474>>, <<1476, 1477>>, <<1479, 1479>>, <<1524, 1524>>,
     <<1536, 1541>>, <<1552, 1562>>, <<1564, 1564>>, <<1600, 1600>>, <<1611, 1631>>, <<1648, 1648>>,
     <<1750, 1757>>, <<1759, 1768>>, <<1770, 1773>>, <<1807, 1807>>, <<1809, 1809>>, <<1840, 1866>>,
     <<1958, 1968>>, <<2027, 2037>>, <<2042, 2042>>, <<2045, 2045>>, <<2070, 2093>>, <<2137, 2139>>,
     <<2184, 2184>>, <<2192, 2193>>, <<2200, 2207>>, <<2249, 2306>>, <<2362, 2362>>, <<2364, 2364>>,
     <<2369, 2376>>, <<2381, 2381>>, <<2385, 2391>>, <<2402, 2403>>, <<2417, 2417>>, <<2433, 2433>>,
     <<2492, 2492>>, <<2497, 2500>>, <<2509, 2509>>, <<2530, 2531>>, <<2558, 2558>>, <<2561, 2562>>,
     <<2620, 2620>>, <<2625, 2626>>, <<2631, 2632>>, <<2635, 2637>>, <<2641, 2641>>, <<2672, 2673>>,
     <<2677, 2677>>, <<2689, 2690>>, <<2748, 2748>>, <<2753, 2757>>, <<2759, 2760>>, <<2765, 2765>>,
     <<2786, 2787>>, <<2810, 2815>>, <<2817, 2817>>, <<2876, 2876>>, <<2879, 2879>>, <<2881, 2884>>,
     <<2893, 2893>>, <<2901, 2902>>, <<2914, 2915>>, <<2946, 2946>>, <<3008, 3008>>, <<3021, 3021>>,
     <<3072, 3072>>, <<3076, 3076>>, <<3132, 3132>>, <<3134, 3136>>, <<3142, 3144>>, <<3146, 3149>>,
     <<3157, 3158>>, <<3170, 3171>>, <<3201, 3201>>, <<3260, 3260>>, <<3263, 3263>>, <<3270, 3270>>,
     <<3276, 3277>>, <<3298, 3299>>, <<3328, 3329>>, <<3387, 3388>>, <<3393, 3396>>, <<3405, 3405>>,
     <<3426, 3427>>, <<3457, 3457>>, <<3530, 3530>>, <<3538, 3540>>, <<3542, 3542>>, <<3633, 3633>>,
     <<3636, 3642>>, <<3654, 3662>>, <<3761, 3761>>, <<3764, 3772>>, <<3782, 3782>>, <<3784, 3789>>,
     <<3864, 3865>>, <<3893, 3893>>, <<3895, 3895>>, <<3897, 3897>>, <<3953, 3966>>, <<3968, 3972>>,
     <<3974, 3975>>, <<3981, 3991>>, <<3993, 4028>>, <<4038, 4038>>, <<4141, 4144>>, <<4146, 4151>>,
     <<4153, 4154>>, <<4157, 4158>>, <<4184, 4185>>, <<4190, 4192>>, <<4209, 4212>>, <<4226, 4226>>,
     <<4229, 4230>>, <<4237, 4237>>, <<4253, 4253>>, <<4348, 4348>>, <<4957, 4959>>, <<5906, 5908>>,
     <<5938, 5939>>, <<5970, 5971>>, <<6002, 6003>>, <<6068, 6069>>, <<6071, 6077>>, <<6086, 6086>>,
     <<6089, 6099>>, <<6103, 6103>>, <<6109, 6109>>, <<6155, 6159>>, <<6211, 6211>>, <<6277, 6278>>,
     <<6313, 6313>>, <<6432, 6434>>, <<6439, 6440>>, <<6450, 6450>>, <<6457, 6459>>, <<6679, 6680>>,
     <<6683, 6683>>, <<6742, 6742>>, <<6744, 6750>>, <<6752, 6752>>, <<6754, 6754>>, <<6757, 6764>>,
     <<6771, 6780>>, <<6783, 6783>>, <<6823, 6823>>, <<6832, 6862>>, <<6912, 6915>>, <<6964, 6964>>,
     <<6966, 6970>>, <<6972, 6972>>, <<6978, 6978>>, <<7019, 7027>>, <<7040, 7041>>, <<7074, 7077>>,
     <<7080, 7081>>, <<7083, 7085>>, <<7142, 7142>>, <<7144, 7145>>, <<7149, 7149>>, <<7151, 7153>>,
     <<7212, 7219>>, <<7222, 7223>>, <<7288, 7293>>, <<7376, 7378>>, <<7380, 7392>>, <<7394, 7400>>,
     <<7405, 7405>>, <<7412, 7412>>, <<7416, 7417>>, <<7468, 7530>>, <<7544, 7544>>, <<7579, 7679>>,
     <<8125, 8125>>, <<8127, 8129>>, <<8141, 8143>>, <<8157, 8159>>, <<8173, 8175>>, <<8189, 8190>>,
     <<8203, 8207>>, <<8216, 8217>>, <<8228, 8228>>, <<8231, 8231>>, <<8234, 8238>>, <<8288, 8292>>,
     <<8294, 8303>>, <<8305, 8305>>, <<8319, 8319>>, <<8336, 8348>>, <<8400, 8432>>, <<11388, 11389>>,
     <<11503, 11505>>, <<11631, 11631>>, <<11647, 11647>>, <<11744, 11775>>, <<11823, 11823>>, <<12293, 12293>>,
     <<12330, 12333>>, <<12337, 12341>>, <<12347, 12347>>, <<12441, 12446>>, <<12540, 12542>>, <<40981, 40981>>,
     <<42232, 42237>>, <<42508, 42508>>, <<42607, 42610>>, <<42612, 42621>>, <<42623, 42623>>, <<42652, 42655>>,
     <<42736, 42737>>, <<42752, 42785>>, <<42864, 42864>>, <<42888, 42890>>, <<42994, 42996>>, <<43000, 43001>>,
     <<43010, 43010>>, <<43014, 43014>>, <<43019, 43019>>, <<43045, 43046>>, <<43052, 43052>>, <<43204, 43205>>,
     <<43232, 43249>>, <<43263, 43263>>, <<43302, 43309>>, <<43335, 43345>>, <<43392, 43394>>, <<43443, 43443>>,
     <<43446, 43449>>, <<43452, 43453>>, <<43471, 43471>>, <<43493, 43494>>, <<43561, 43566>>, <<43569, 43570>>,
     <<43573, 43574>>, <<43587, 43587>>, <<43596, 43596>>, <<43632, 43632>>, <<43644, 43644>>, <<43696, 43696>>,
     <<43698, 43700>>, <<43703, 43704>>, <<43710, 43711>>, <<43713, 43713>>, <<43741, 43741>>, <<43756, 43757>>,
     <<43763, 43764>>, <<43766, 43766>>, <<43867, 43871>>, <<43881, 43883>>, <<44005, 44005>>, <<44008, 44008>>,
     <<44013, 44013>>, <<64286, 64286>>, <<64434, 64450>>, <<65024, 65039>>, <<65043, 65043>>, <<65056, 65071>>,
     <<65106, 65106>>, <<65109, 65109>>, <<65279, 65279>>, <<65287, 65287>>, <<65294, 65294>>, <<65306, 65306>>,
     <<65342, 65342>>, <<65344, 65344>>, <<65392, 65392>>, <<65438, 65439>>, <<65507, 65507>>, <<65529, 65531>>,
     <<66045, 66045>>, <<66272, 66272>>, <<66422, 66426>>, <<67456, 67461>>, <<67463, 67504>>, <<67506, 67514>>,
     <<68097, 68099>>, <<68101, 68102>>, <<68108, 68111>>, <<68152, 68154>>, <<68159, 68159>>, <<68325, 68326>>,
     <<68900, 68903>>, <<69291, 69292>>, <<69446, 69456>>, <<69506, 69509>>, <<69633, 69633>>, <<69688, 69702>>,
     <<69744, 69744>>, <<69747, 69748>>, <<69759, 69761>>, <<69811, 69814>>, <<69817, 69818>>, <<69821, 69821>>,
     <<69826, 69826>>, <<69837, 69837>>, <<69888, 69890>>, <<69927, 69931>>, <<69933, 69940>>, <<70003, 70003>>,
     <<70016, 70017>>, <<70070, 70078>>, <<70089, 70092>>, <<70095, 70095>>, <<70191, 70193>>, <<70196, 70196>>,
     <<70198, 70199>>, <<70206, 70206>>, <<70367, 70367>>, <<70371, 70378>>, <<70400, 70401>>, <<70459, 70460>>,
     <<70464, 70464>>, <<70502, 70508>>, <<70512, 70516>>, <<70712, 70719>>, <<70722, 70724>>, <<70726, 70726>>,
     <<70750, 70750>>, <<70835, 70840>>, <<70842, 70842>>, <<70847, 70848>>, <<70850, 70851>>, <<71090, 71093>>,
     <<71100, 71101>>, <<71103, 71104>>, <<71132, 71133>>, <<71219, 71226>>, <<71229, 71229>>, <<71231, 71232>>,
     <<71339, 71339>>, <<71341, 71341>>, <<71344, 71349>>, <<71351, 71351>>, <<71453, 71455>>, <<71458, 71461>>,
     <<71463, 71467>>, <<71727, 71735>>, <<71737, 71738>>, <<71995, 71996>>, <<71998, 71998>>, <<72003, 72003>>,
     <<72148, 72151>>, <<72154, 72155>>, <<72160, 72160>>, <<72193, 72202>>, <<72243, 72248>>, <<72251, 72254>>,
     <<72263, 72263>>, <<72273, 72278>>, <<72281, 72283>>, <<72330, 72342>>, <<72344, 72345>>, <<72752, 72758>>,
     <<72760, 72765>>, <<72767, 72767>>, <<72850, 72871>>, <<72874, 72880>>, <<72882, 72883>>, <<72885, 72886>>,
     <<73009, 73014>>, <<73018, 73018>>, <<73020, 73021>>, <<73023, 73029>>, <<73031, 73031>>, <<73104, 73105>>,
     <<73109, 73109>>, <<73111, 73111>>, <<73459, 73460>>, <<78896, 78904>>, <<92912, 92916>>, <<92976, 92982>>,
     <<92992, 92995>>, <<94031, 94031>>, <<94095, 94111>>, <<94176, 94177>>, <<94179, 94180>>, <<110576, 110579>>,
     <<110581, 110587>>, <<110589, 110590>>, <<113821, 113822>>, <<113824, 113827>>, <<118528, 118573>>, <<118576, 118598>>,
     <<119143, 119145>>, <<119155, 119170>>, <<119173, 119179>>, <<119210, 119213>>, <<119362, 119364>>, <<121344, 121398>>,
     <<121403, 121452>>, <<121461, 121461>>, <<121476, 121476>>, <<121499, 121503>>, <<121505, 121519>>, <<122880, 122886>>,
     <<122888, 122904>>, <<122907, 122913>>, <<122915, 122916>>, <<122918, 122922>>, <<123184, 123197>>, <<123566, 123566>>,
     <<123628, 123631>>, <<125136, 125142>>, <<125252, 125259>>, <<127995, 127999>>, <<917505, 917505>>, <<917536, 917631>>,
     <<917760, 917999>> >>

\* the cased characters (those that are not case-ignorable as well: the
\* final-sigma rule tests no other)
CasedRanges ==
  << <<65, 90>>, <<97, 122>>, <<170, 170>>, <<181, 181>>, <<186, 186>>, <<192, 214>>,
     <<216, 246>>, <<248, 442>>, <<444, 447>>, <<452, 659>>, <<661, 687>>, <<880, 883>>,
     <<886, 887>>, <<891, 893>>, <<895, 895>>, <<902, 902>>, <<904, 906>>, <<908, 908>>,
     <<910, 929>>, <<931, 1013>>, <<1015, 1153>>, <<1162, 1327>>, <<1329, 1366>>, <<1376, 1416>>,
     <<4256, 4293>>, <<4295, 4295>>, <<4301, 4301>>, <<4304, 4346>>, <<4349, 4351>>, <<5024, 5109>>,
     <<5112, 5117>>, <<7296, 7304>>, <<7312, 7354>>, <<7357, 7359>>, <<7424, 7467>>, <<7531, 7543>>,
     <<7545, 7578>>, <<7680, 7957>>, <<7960, 7965>>, <<7968, 8005>>, <<8008, 8013>>, <<8016, 8023>>,
     <<8025, 8025>>, <<8027, 8027>>, <<8029, 8029>>, <<8031, 8061>>, <<8064, 8116>>, <<8118, 8124>>,
     <<8126, 8126>>, <<8130, 8132>>, <<8134, 8140>>, <<8144, 8147>>, <<8150, 8155>>, <<8160, 8172>>,
     <<8178, 8180>>, <<8182, 8188>>, <<8450, 8450>>, <<8455, 8455>>, <<8458, 8467>>, <<8469, 8469>>,
     <<8473, 8477>>, <<8484, 8484>>, <<8486, 8486>>, <<8488, 8488>>, <<8490, 8493>>, <<8495, 8500>>,
     <<8505, 8505>>, <<8508, 8511>>, <<8517, 8521>>, <<8526, 8526>>, <<8544, 8575>>, <<8579, 8580>>,
     <<9398, 9449>>, <<11264, 11387>>, <<11390, 11492>>, <<11499, 11502>>, <<11506, 11507>>, <<11520, 11557>>,
     <<11559, 11559>>, <<11565, 11565>>, <<42560, 42605>>, <<42624, 42651>>, <<42786, 42863>>, <<42865, 42887>>,
     <<42891, 42894>>, <<42896, 42954>>, <<42960, 42961>>, <<42963, 42963>>, <<42965, 42969>>, <<42997, 42998>>,
     <<43002, 43002>>, <<43824, 43866>>, <<43872, 43880>>, <<43888, 43967>>, <<64256, 64262>>, <<64275, 64279>>,
     <<65313, 65338>>, <<65345, 65370>>, <<66560, 66639>>, <<66736, 66771>>, <<66776, 66811>>, <<66928, 66938>>,
     <<66940, 66954>>, <<66956, 66962>>, <<66964, 66965>>, <<66967, 66977>>, <<66979, 66993>>, <<66995, 67001>>,
     <<67003, 67004>>, <<68736, 68786>>, <<68800, 68850>>, <<71840, 71903>>, <<93760, 93823>>, <<119808, 119892>>,
     <<119894, 119964>>, <<119966, 119967>>, <<119970, 119970>>, <<119973, 119974>>, <<119977, 119980>>, <<119982, 119993>>,
     <<119995, 119995>>, <<119997, 120003>>, <<120005, 120069>>, <<120071, 120074>>, <<120077, 120084>>, <<120086, 120092>>,
     <<120094, 120121>>, <<120123, 120126>>, <<120128, 120132>>, <<120134, 120134>>, <<120138, 120144>>, <<120146, 120485>>,
     <<120488, 120512>>, <<120514, 120538>>, <<120540, 120570>>, <<120572, 120596>>, <<120598, 120628>>, <<120630, 120654>>,
     <<120656, 120686>>, <<120688, 120712>>, <<120714, 120744>>, <<120746, 120770>>, <<120772, 120779>>, <<122624, 122633>>,
     <<122635, 122654>>, <<125184, 125251>>, <<127280, 127305>>, <<127312, 127337>>, <<127344, 127369>> >>

\* the row of a table whose range holds c, 0 when there is none
RECURSIVE Locate(_, _, _, _)
Locate(table, c, lo, hi) ==
  IF lo > hi THEN 0
  ELSE LET mid == (lo + hi) \div 2
       IN  IF c < table[mid][1] THEN Locate(table, c, lo, mid - 1)
           ELSE IF c > table[mid][2] THEN Locate(table, c, mid + 1, hi)
           ELSE mid

Row(table, c) == Locate(table, c, 1, Len(table))

\* \s, and the characters str.strip() removes
IsSpace(c) ==
  IF c < 128 THEN Row(SpaceAscii, c) # 0 ELSE Row(SpaceBeyond, c) # 0

\* \d
IsDigit(c) ==
  IF c < 128 THEN Row(DigitAscii, c) # 0 ELSE Row(DigitBeyond, c) # 0

\* \w
IsWord(c) ==
  IF c < 128 THEN Row(WordAscii, c) # 0 ELSE Row(WordBeyond, c) # 0

\* the value float() gives a digit: its place in its run of ten
DigitVal(c) ==
  IF c < 128 THEN c - Zero
  ELSE (c - DigitBeyond[Row(DigitBeyond, c)][1]) % 10

IsCaseIgnorable(c) == Row(CaseIgnorableRanges, c) # 0

IsCased(c) == Row(CasedRanges, c) # 0

\* the characters a case mapping makes of c
MapChar(map, special, c) ==
  LET s == Row(special, c)
      k == Row(map, c)
  IN  IF s # 0 THEN special[s][3]
      ELSE IF k # 0 /\ (c - map[k][1]) % map[k][3] = 0 THEN <<c + map[k][4]>>
      ELSE <<c>>

\* str.lower() of one character on its own (no ASCII character lower-cases
\* to several)
ToLowerFull(c) ==
  IF c < 128 THEN MapChar(LowerAscii, <<>>, c)
  ELSE MapChar(LowerBeyond, LowerSpecial, c)

\* the title case of one character
ToTitleFull(c) ==
  IF c < 128 THEN MapChar(TitleAscii, <<>>, c)
  ELSE MapChar(TitleBeyond, TitleSpecial, c)

RECURSIVE SkipIgnorableBack(_, _)
SkipIgnorableBack(s, j) ==
  IF j >= 1 /\ IsCaseIgnorable(s[j]) THEN SkipIgnorableBack(s, j - 1) ELSE j

RECURSIVE SkipIgnorable(_, _)
SkipIgnorable(s, j) ==
  IF j <= Len(s) /\ IsCaseIgnorable(s[j]) THEN SkipIgnorable(s, j + 1) ELSE j

\* a capital sigma (U+03A3) at position i of s lower-cases to the final sigma
\* (U+03C2) when a cased character precedes it and none follows it, case-
\* ignorable characters skipped, and to U+03C3 otherwise
HandleCapitalSigma(s, i) ==
  LET b == SkipIgnorableBack(s, i - 1)
      a == SkipIgnorable(s, i + 1)
  IN  IF /\ b >= 1
         /\ IsCased(s[b])
         /\ (a > Len(s) \/ ~IsCased(s[a]))
        THEN 962 ELSE 963

\* what str.lower() makes of the character at position i of s
LowerAt(s, i) ==
  IF s[i] = 931 THEN <<HandleCapitalSigma(s, i)>> ELSE ToLowerFull(s[i])

\* str.lower()
LowerStr(s) == Concat([i \in DOMAIN s |-> LowerAt(s, i)])

(***************************************************************************)
(* str.split("\n"), str.strip(), str.capitalize()                          *)
(***************************************************************************)
RECURSIVE SplitLines(_)
SplitLines(text) ==
  IF \E k \in DOMAIN text : text[k] = LineFeed
    THEN LET k == CHOOSE j \in DOMAIN text :
                    text[j] = LineFeed /\ \A m \in 1..(j-1) : text[m] # LineFeed
         IN  <<SubSeq(text, 1, k-1)>> \o SplitLines(SubSeq(text, k+1, Len(text)))
    ELSE <<text>>

RECURSIVE LeadingEnd(_, _)
LeadingEnd(line, p) ==
  IF p <= Len(line) /\ IsSpace(line[p]) THEN LeadingEnd(line, p + 1) ELSE p

RECURSIVE TrailingStart(_, _)
TrailingStart(line, p) ==
  IF p >= 1 /\ IsSpace(line[p]) THEN TrailingStart(line, p - 1) ELSE p

\* str.strip(): leading and trailing whitespace removed
Strip(line) == SubSeq(line, LeadingEnd(line, 1), TrailingStart(line, Len(line)))

\* faulty variant of Capitalize: only the first character is changed
CapitalizeFirstOnly(w) ==
  IF w = <<>> THEN <<>> ELSE ToTitleFull(w[1]) \o Tail(w)

\* str.capitalize(): the first character in title case, every other
\* character lower-cased
Capitalize(w) ==
  IF w = <<>> THEN <<>>
  ELSE ToTitleFull(w[1]) \o Concat([i \in 1..(Len(w) - 1) |-> LowerAt(w, i + 1)])

(***************************************************************************)
(* The regular expressions.  Positions are 1-based; a position names the   *)
(* next character to consume, Len(line)+1 is the end of the line.          *)
(***************************************************************************)

\* end of the longest run of digits / word characters / whitespace from p:
\* the first position from p on that holds none
DigitsEnd(line, p) ==
  IF p > Len(line) THEN p
  ELSE CHOOSE q \in p..(Len(line) + 1) :
         /\ q <= Len(line) => ~IsDigit(line[q])
         /\ \A r \in p..(q - 1) : IsDigit(line[r])

WordEnd(line, p) ==
  IF p > Len(line) THEN p
  ELSE CHOOSE q \in p..(Len(line) + 1) :
         /\ q <= Len(line) => ~IsWord(line[q])
         /\ \A r \in p..(q - 1) : IsWord(line[r])

SpaceEnd(line, p) ==
  IF p > Len(line) THEN p
  ELSE CHOOSE q \in p..(Len(line) + 1) :
         /\ q <= Len(line) => ~IsSpace(line[q])
         /\ \A r \in p..(q - 1) : IsSpace(line[r])

\* the alternation mg|ml|g|mcg|units? in the order the engine tries it
\* (units? is greedy: "units" before "unit")
UnitAlternatives ==
  << <<109, 103>>,                  \* mg
     <<109, 108>>,                  \* ml
     <<103>>,                       \* g
     <<109, 99, 103>>,              \* mcg
     <<117, 110, 105, 116, 115>>,   \* units
     <<117, 110, 105, 116>> >>      \* unit

\* re.IGNORECASE: the lower-case ASCII letter whose literal matches c, c
\* itself when there is none.  A letter matches itself and its capital, and
\* i matches the dotted capital U+0130 and the dotless U+0131, s the long s
\* U+017F, k the Kelvin sign U+212A.
CaseFold(c) ==
  IF c >= 65 /\ c <= 90 THEN c + 32
  ELSE IF c < 128 THEN c
  ELSE IF c \in {304, 305} THEN 105
  ELSE IF c = 383 THEN 115
  ELSE IF c = 8490 THEN 107
  ELSE c

\* does the literal lit (of lower-case ASCII letters) stand at position p,
\* ignoring case
LooksAt(line, p, lit) ==
  /\ p + Len(lit) - 1 <= Len(line)
  /\ \A k \in DOMAIN lit : CaseFold(line[p + k - 1]) = lit[k]

\* (mg|ml|g|mcg|units?) at p: the position after the unit, 0 when none matches
UnitEnd(line, p) ==
  LET hits == {a \in DOMAIN UnitAlternatives : LooksAt(line, p, UnitAlternatives[a])}
  IN  IF hits = {} THEN 0
      ELSE p + Len(UnitAlternatives[CHOOSE a \in hits : \A b \in hits : a <= b])

\* \d+(?:\.\d+)? at p: the position after the number, 0 when no digit is at p
NumberEnd(line, p) ==
  LET d1 == DigitsEnd(line, p)
  IN  IF d1 = p THEN 0
      ELSE IF d1 <= Len(line) /\ line[d1] = FullStop /\ DigitsEnd(line, d1 + 1) > d1 + 1
             THEN DigitsEnd(line, d1 + 1)
             ELSE d1

\* \s*(mg|ml|g|mcg|units?) after a number that ends before n (0: no number)
UnitAfter(line, n) ==
  LET u == IF n = 0 THEN 0 ELSE SpaceEnd(line, n)
      e == IF n = 0 THEN 0 ELSE UnitEnd(line, u)
  IN  [ok |-> e # 0, numEnd |-> n, unitStart |-> u, end |-> e]

\* \d+(?:\.\d+)?\s*(mg|ml|g|mcg|units?) at p
DosageAt(line, p) == UnitAfter(line, NumberEnd(line, p))

\* faulty variant of DosageStart: the third pattern written in the colon form
DosageStartColon(k, line, s) ==
  LET w  == WordEnd(line, s)
      sp == SpaceEnd(line, w)
  IN  IF w = s THEN 0
      ELSE IF k # 1
             THEN IF sp <= Len(line) /\ line[sp] = Colon
                    THEN SpaceEnd(line, sp + 1) ELSE 0
             ELSE IF sp > w THEN sp ELSE 0

\* the position where the dosage part of pattern k must start for a match
\* beginning at s, 0 when the name part does not match:
\*   1, 3:  (\w+)\s+      2:  (\w+)\s*:\s*
DosageStart(k, line, s) ==
  LET w  == WordEnd(line, s)
      sp == SpaceEnd(line, w)
  IN  IF w = s THEN 0
      ELSE IF k = 2
             THEN IF sp <= Len(line) /\ line[sp] = Colon
                    THEN SpaceEnd(line, sp + 1) ELSE 0
             ELSE IF sp > w THEN sp ELSE 0

\* medication_patterns[k-1] tried at position s: the groups re.findall reports
\* (two for patterns 1 and 2, three for pattern 3) and where the match ends
\* the dosage part from d on, where the name part put it (0: no name part)
DosageFrom(line, d) ==
  IF d = 0 THEN [ok |-> FALSE, numEnd |-> 0, unitStart |-> 0, end |-> 0]
  ELSE DosageAt(line, d)

\* the match of pattern k at s whose word ends before w and whose dosage part
\* is m, from d on
Groups(k, line, s, w, d, m) ==
  IF ~m.ok THEN [ok |-> FALSE, start |-> s, end |-> s, groups |-> <<>>]
  ELSE [ok |-> TRUE, start |-> s, end |-> m.end,
        groups |->
          IF k = 3
            THEN << SubSeq(line, s, w - 1),
                    SubSeq(line, d, m.numEnd - 1),
                    SubSeq(line, m.unitStart, m.end - 1) >>
            ELSE << SubSeq(line, s, w - 1), SubSeq(line, d, m.end - 1) >>]

MatchAt(k, line, s) ==
  Groups(k, line, s, WordEnd(line, s), DosageStart(k, line, s),
         DosageFrom(line, DosageStart(k, line, s)))

\* re.findall(medication_patterns[k-1], line, re.IGNORECASE) scanning from s:
\* the non-overlapping matches from left to right
RECURSIVE FindAllFrom(_, _, _)
RECURSIVE ScanOn(_, _, _, _)
FindAllFrom(k, line, s) ==
  IF s > Len(line) THEN <<>> ELSE ScanOn(k, line, s, MatchAt(k, line, s))

\* the scan after the attempt m at s: behind the match, or one character on
ScanOn(k, line, s, m) ==
  IF m.ok THEN <<m>> \o FindAllFrom(k, line, m.end)
  ELSE FindAllFrom(k, line, s + 1)

FindAll(k, line) == FindAllFrom(k, line, 1)

(***************************************************************************)
(* parse_prescription_text: what one pattern adds for one line             *)
(***************************************************************************)

\* the tuples the loop body handles: len(match) == 2 or len(match) == 3
Handled(matches) == SelectSeq(matches, LAMBDA m : Len(m.groups) \in {2, 3})

\* medications.append(med_name.capitalize()) for every match, in order
NewMedications(matches) ==
  LET h == Handled(matches)
  IN  [j \in DOMAIN h |-> Capitalize(h[j].groups[1])]

\* faulty variant of NewDosages: a triple appends no dosage
NewDosagesPairsOnly(matches) ==
  LET h == SelectSeq(matches, LAMBDA m : Len(m.groups) = 2)
  IN  [j \in DOMAIN h |-> h[j].groups[2]]

\* dosages.append(dosage) for a pair, dosages.append(f"{number} {unit}") for a triple
NewDosages(matches) ==
  LET h == Handled(matches)
  IN  [j \in DOMAIN h |->
         IF Len(h[j].groups) = 2 THEN h[j].groups[2]
         ELSE h[j].groups[2] \o <<Space>> \o h[j].groups[3]]

\* faulty variant of Extend: the new elements are put in front
ExtendFront(list, new) == new \o list

\* list.append: the new elements go to the end, in order
Extend(list, new) == list \o new

(***************************************************************************)
(* analyze_prescription: the assessment of one entry                       *)
(***************************************************************************)
Unknown == Codes("Unknown")

DefaultUnit == Codes("units")

\* the units that have a threshold of their own
Milligram == Codes("mg")

Gram == Codes("g")

Millilitre == Codes("ml")

\* the pieces of the info of a record
CurrentLabel == Codes("Current: ")

RecommendedLabel == Codes(", Recommended: ")

UnableToParse == Codes(", Unable to parse dosage")

UnableToCalculate == Codes(", Unable to calculate recommendation")

\* the pieces of the default record
NoMedications == Codes("No medications detected")

PleaseEnsure == Codes("Please ensure the ")

ContainsClear == Codes(" contains clear prescription information")

TextFile == Codes("text file")

Image == Codes("image")

\* dosages[i] if i < len(dosages) else "Unknown"   (i counted from 1 here)
CurrentDosage(ds, j) == IF j <= Len(ds) THEN ds[j] ELSE Unknown

\* re.findall(r'(\d+(?:\.\d+)?)', current_dosage): is the list non-empty
HasNumber(d) == \E p \in DOMAIN d : IsDigit(d[p])

\* dosage_numbers[0]: the leftmost match starts at the first digit
FirstNumber(d) ==
  LET p == CHOOSE a \in DOMAIN d :
             IsDigit(d[a]) /\ \A b \in 1..(a-1) : ~IsDigit(d[b])
  IN  SubSeq(d, p, NumberEnd(d, p) - 1)

\* re.search(r'(mg|ml|g|mcg|units?)', current_dosage, re.IGNORECASE):
\* the leftmost position where an alternative matches; "units" when none does
FirstUnit(d) ==
  LET at == {p \in DOMAIN d : UnitEnd(d, p) # 0}
  IN  IF at = {} THEN DefaultUnit
      ELSE LET p == CHOOSE a \in at : \A b \in at : a <= b
           IN  SubSeq(d, p, UnitEnd(d, p) - 1)

(***************************************************************************)
(* Natural numbers of any size, for the arithmetic of float: a number is   *)
(* the sequence of its digits to a base, the lowest digit first, without   *)
(* leading zeros; 0 is the empty sequence.  The base is Limb (2^15) for    *)
(* arithmetic and Myriad (10^4) for decimal text.  The operators on long   *)
(* numbers avoid recursion over the digits.                                *)
(***************************************************************************)
LimbBits == 15

Limb == 32768

\* decimal digits are taken and given four at a time
Chunk == 4

Myriad == 10000

RECURSIVE TwoTo(_)
TwoTo(b) == IF b = 0 THEN 1 ELSE 2 * TwoTo(b - 1)

RECURSIVE FiveTo(_)
FiveTo(b) == IF b = 0 THEN 1 ELSE 5 * FiveTo(b - 1)

RECURSIVE Pow10(_)
Pow10(k) == IF k = 0 THEN 1 ELSE 10 * Pow10(k - 1)

Max(i, j) == IF i >= j THEN i ELSE j

Min(i, j) == IF i <= j THEN i ELSE j

\* the small number a few decimal digits write
RECURSIVE IntValue(_)
IntValue(ds) ==
  IF ds = <<>> THEN 0
  ELSE 10 * IntValue(SubSeq(ds, 1, Len(ds) - 1)) + DigitVal(ds[Len(ds)])

\* the decimal digits of a small number as characters
RECURSIVE IntChars(_)
IntChars(n) ==
  IF n < 10 THEN <<Zero + n>>
  ELSE IntChars(n \div 10) \o <<Zero + (n % 10)>>

\* the last k decimal digits of a small number as characters
RECURSIVE LastChars(_, _)
LastChars(n, k) ==
  IF k = 0 THEN <<>> ELSE LastChars(n \div 10, k - 1) \o <<Zero + (n % 10)>>

\* f[i] + ... + f[j]
RECURSIVE Sum(_, _, _)
Sum(f, i, j) ==
  IF i > j THEN 0
  ELSE IF i = j THEN f[i]
  ELSE Sum(f, i, (i + j) \div 2) + Sum(f, (i + j) \div 2 + 1, j)

\* a small number (below the base) as a number of any size
Small(n) == IF n = 0 THEN <<>> ELSE <<n>>

\* the i-th digit of a, 0 beyond its length
At(a, i) == IF i <= Len(a) THEN a[i] ELSE 0

\* a without its leading zeros
Trim(a) ==
  IF \A i \in 1..Len(a) : a[i] = 0 THEN <<>>
  ELSE SubSeq(a, 1, CHOOSE i \in 1..Len(a) :
                      a[i] # 0 /\ \A j \in (i + 1)..Len(a) : a[j] = 0)

\* a + b; a and b may have leading zeros.  A carry enters place i when a
\* lower place overflows and every place between passes a carry on.
Add(a, b, base) ==
  LET s(i)     == At(a, i) + At(b, i)
      carry(i) == IF \E j \in 1..(i - 1) :
                       s(j) >= base /\ \A t \in (j + 1)..(i - 1) : s(t) = base - 1
                    THEN 1 ELSE 0
  IN  IF a = <<>> THEN Trim(b)
      ELSE IF b = <<>> THEN Trim(a)
      ELSE Trim([i \in 1..(Max(Len(a), Len(b)) + 1) |-> (s(i) + carry(i)) % base])

\* a * k for a small k
MulSmall(a, k, base) ==
  Add([i \in 1..Len(a) |-> (a[i] * k) % base],
      <<0>> \o [i \in 1..Len(a) |-> (a[i] * k) \div base], base)

\* a * b: the products of the digits, each split into its two digits, are
\* summed by place, and the sums split again
Mul(a, b, base) ==
  LET low(i, k)  == IF k + 1 - i \in 1..Len(b)
                      THEN (a[i] * b[k + 1 - i]) % base ELSE 0
      high(i, k) == IF k - i \in 1..Len(b)
                      THEN (a[i] * b[k - i]) \div base ELSE 0
      place(k)   == Sum([i \in 1..Len(a) |-> low(i, k) + high(i, k)], 1, Len(a))
  IN  IF a = <<>> \/ b = <<>> THEN <<>>
      ELSE Add([k \in 1..(Len(a) + Len(b)) |-> place(k) % base],
               <<0>> \o [k \in 1..(Len(a) + Len(b)) |-> place(k) \div base], base)

\* x^n
RECURSIVE Power(_, _, _)
Power(x, n, base) ==
  IF n = 0 THEN <<1>>
  ELSE IF n = 1 THEN x
  ELSE Mul(Power(x, n \div 2, base), Power(x, n - n \div 2, base), base)

\* the number a writes to the base from, written to the base to
RECURSIVE Convert(_, _, _)
Convert(a, from, to) ==
  IF a = <<>> THEN <<>>
  ELSE IF Len(a) = 1 THEN Trim(<<a[1] % to, a[1] \div to>>)
  ELSE Add(Convert(Trim(SubSeq(a, 1, Len(a) \div 2)), from, to),
           Mul(Convert(SubSeq(a, Len(a) \div 2 + 1, Len(a)), from, to),
               Power(Trim(<<from % to, from \div to>>), Len(a) \div 2, to), to),
           to)

\* long division of r0 * Limb^Len(a) + a by a small d, for a remainder
\* r0 < d from the digits above: the digits q of the quotient, the highest
\* first, and the remainder r.  The upper half of the digits is divided
\* first and hands its remainder to the lower half.
RECURSIVE DivRem(_, _, _)
RECURSIVE DivLower(_, _, _)
DivRem(a, d, r0) ==
  IF a = <<>> THEN [q |-> <<>>, r |-> r0]
  ELSE IF Len(a) = 1
    THEN [q |-> <<(r0 * Limb + a[1]) \div d>>, r |-> (r0 * Limb + a[1]) % d]
  ELSE DivLower(a, d, DivRem(SubSeq(a, Len(a) \div 2 + 1, Len(a)), d, r0))

\* the same, given quotient and remainder of the upper half
DivLower(a, d, upper) ==
  [q |-> upper.q \o DivRem(SubSeq(a, 1, Len(a) \div 2), d, upper.r).q,
   r |-> DivRem(SubSeq(a, 1, Len(a) \div 2), d, upper.r).r]

\* a % d and a \div d for a small d
ModSmall(a, d) == DivRem(a, d, 0).r

Reverse(s) == [i \in 1..Len(s) |-> s[Len(s) + 1 - i]]

DivSmall(a, d) == Trim(Reverse(DivRem(a, d, 0).q))

\* a * 2^s
ShiftLeft(a, s) ==
  IF a = <<>> THEN <<>>
  ELSE [i \in 1..(s \div LimbBits) |-> 0] \o MulSmall(a, TwoTo(s % LimbBits), Limb)

\* a \div 2^s
ShiftRight(a, s) ==
  IF s \div LimbBits >= Len(a) THEN <<>>
  ELSE Trim([i \in 1..(Len(a) - s \div LimbBits) |->
               a[i + s \div LimbBits] \div TwoTo(s % LimbBits)
                 + (At(a, i + s \div LimbBits + 1) % TwoTo(s % LimbBits))
                     * TwoTo(LimbBits - (s % LimbBits))])

\* the bit of a that counts 2^i
Bit(a, i) ==
  IF i \div LimbBits >= Len(a) THEN 0
  ELSE (a[i \div LimbBits + 1] \div TwoTo(i % LimbBits)) % 2

\* a is a multiple of 2^s
LowZero(a, s) ==
  /\ \A i \in 1..(s \div LimbBits) : i <= Len(a) => a[i] = 0
  /\ s \div LimbBits < Len(a) => a[s \div LimbBits + 1] % TwoTo(s % LimbBits) = 0

\* the number of bits of a small number, and of a
RECURSIVE SmallBitLen(_)
SmallBitLen(n) == IF n = 0 THEN 0 ELSE 1 + SmallBitLen(n \div 2)

BitLen(a) ==
  IF a = <<>> THEN 0 ELSE LimbBits * (Len(a) - 1) + SmallBitLen(a[Len(a)])

\* a > b, for a and b without leading zeros
Greater(a, b) ==
  \/ Len(a) > Len(b)
  \/ /\ Len(a) = Len(b)
     /\ \E i \in 1..Len(a) : a[i] > b[i] /\ \A j \in (i + 1)..Len(a) : a[j] = b[j]

\* (a + f) / 2^s rounded to the nearest integer, a tie to the even one, where
\* s >= 1 and 0 <= f < 1 with f > 0 exactly when inexact
RoundHalfEven(a, s, inexact) ==
  IF Bit(a, s - 1) = 1 /\ (inexact \/ ~LowZero(a, s - 1) \/ Bit(a, s) = 1)
    THEN Add(ShiftRight(a, s), <<1>>, Limb)
    ELSE ShiftRight(a, s)

\* the decimal digits, the highest first, of the number d writes to the base
\* Myriad; none for 0
MyriadChars(d) ==
  IF d = <<>> THEN <<>>
  ELSE IntChars(d[Len(d)])
         \o [p \in 1..(Chunk * (Len(d) - 1)) |->
               LastChars(d[Len(d) - 1 - (p - 1) \div Chunk], Chunk)[((p - 1) % Chunk) + 1]]

\* the decimal digits of a as characters, the highest first; none for 0
Decimal(a) == MyriadChars(Convert(a, Limb, Myriad))

(***************************************************************************)
(* float: an IEEE 754 double is inf or m * 2^e, with m below 2^53 (2^53    *)
(* itself after a rounding that carries) and e at least -1074.             *)
(***************************************************************************)
\* the bits of the significand, the lowest exponent of its last bit, and the
\* exponent no finite double reaches
MantissaBits == 53

MinExponent == -1074

MaxExponent == 1024

Infinity == [inf |-> TRUE, m |-> <<>>, e |-> 0]

\* the double nearest to (a + f) * 2^e, a tie to the even significand, where
\* 0 <= f < 1 with f > 0 exactly when inexact (and then a has more than
\* MantissaBits bits); inf from 2^MaxExponent on
ToDouble(a, e, inexact) ==
  LET s == Max(BitLen(a) - MantissaBits, MinExponent - e)
      m == IF s > 0 THEN RoundHalfEven(a, s, inexact) ELSE a
      x == IF s > 0 THEN e + s ELSE e
  IN  IF BitLen(m) + x > MaxExponent THEN Infinity
      ELSE [inf |-> FALSE, m |-> m, e |-> x]

\* the number a string of decimal digits writes: the digits, four at a time
\* from the right, write it to the base Myriad
DigitsValue(ds) ==
  Convert(Trim([i \in 1..((Len(ds) + Chunk - 1) \div Chunk) |->
                 IntValue(SubSeq(ds, Max(1, Len(ds) - Chunk * i + 1),
                                 Len(ds) - Chunk * (i - 1)))]),
          Myriad, Limb)

\* the powers of five are divided by six at a time (5^6 is below Limb)
FiveChunk == 6

\* a \div 5^k
RECURSIVE DivPow5(_, _)
DivPow5(a, k) ==
  IF k = 0 \/ a = <<>> THEN a
  ELSE DivPow5(DivSmall(a, FiveTo(Min(FiveChunk, k))), k - Min(FiveChunk, k))

\* the double nearest to a / 5^k * 2^e, given the quotient q of a by 5^k
NearestTo(a, k, e, q) ==
  ToDouble(q, e, Mul(q, Power(<<5>>, k, Limb), Limb) # a)

\* the double nearest to a / 10^k = a / 5^k * 2^-k: a is scaled by a power of
\* two that leaves the quotient by 5^k (below 2^(3k)) two bits or more beyond
\* those the significand holds
Nearest(a, k) ==
  LET s == IF k = 0 THEN 0 ELSE Max(0, MantissaBits + 2 + 3 * k - BitLen(a))
  IN  NearestTo(ShiftLeft(a, s), k, -s - k, DivPow5(ShiftLeft(a, s), k))

\* float(dosage_numbers[0]): the double nearest to the decimal number written
ParseFloat(n) ==
  LET digits == SelectSeq(n, IsDigit)
      dot    == {p \in DOMAIN n : n[p] = FullStop}
  IN  Nearest(DigitsValue(digits),
              IF dot = {} THEN 0 ELSE Len(n) - (CHOOSE p \in dot : TRUE))

\* the safe_threshold chosen from unit.lower()
SafeThreshold(unit) ==
  LET u == LowerStr(unit)
  IN  IF u \in {Milligram, Gram}
        THEN (IF u = Milligram THEN 500 ELSE 5)
        ELSE IF u \in {Millilitre} THEN 50
        ELSE 100

\* faulty variant of Exceeds: the threshold itself counts as exceeded
ExceedsOrEquals(x, threshold) ==
  \/ x.inf
  \/ IF x.e >= 0
       THEN ~Greater(Small(threshold), ShiftLeft(x.m, x.e))
       ELSE ~Greater(ShiftLeft(Small(threshold), -x.e), x.m)

\* number > safe_threshold
Exceeds(x, threshold) ==
  \/ x.inf
  \/ IF x.e >= 0
       THEN Greater(ShiftLeft(x.m, x.e), Small(threshold))
       ELSE Greater(x.m, ShiftLeft(Small(threshold), -x.e))

\* the literal 0.9
NineTenths == ParseFloat(Codes("0.9"))

\* x * y: the double nearest to the product
Times(x, y) ==
  IF x.inf \/ y.inf THEN Infinity
  ELSE ToDouble(Mul(x.m, y.m, Limb), x.e + y.e, FALSE)

\* faulty variant of Tenths: the hundredths are cut off, not rounded
TenthsTruncated(x) ==
  IF x.e >= 0 THEN ShiftLeft(MulSmall(x.m, 10, Limb), x.e)
  ELSE ShiftRight(MulSmall(x.m, 10, Limb), -x.e)

\* the finite x in tenths, as the format :.1f rounds it: to the nearest
\* tenth, a tie to the even one
Tenths(x) ==
  IF x.e >= 0 THEN ShiftLeft(MulSmall(x.m, 10, Limb), x.e)
  ELSE RoundHalfEven(MulSmall(x.m, 10, Limb), -x.e, FALSE)

\* the text of t tenths: all digits but the last, the point, the last digit
TenthsText(ds) ==
  (IF Len(ds) <= 1 THEN <<Zero>> ELSE SubSeq(ds, 1, Len(ds) - 1))
    \o <<FullStop>>
    \o (IF ds = <<>> THEN <<Zero>> ELSE <<ds[Len(ds)]>>)

\* f"{x:.1f}"
FormatOneDecimal(x) ==
  IF x.inf THEN Codes("inf") ELSE TenthsText(Decimal(Tenths(x)))

\* f"{number*0.9:.1f} {unit}" if number > safe_threshold else current_dosage
Recommended(d) ==
  IF Exceeds(ParseFloat(FirstNumber(d)), SafeThreshold(FirstUnit(d)))
    THEN FormatOneDecimal(Times(ParseFloat(FirstNumber(d)), NineTenths))
           \o <<Space>> \o FirstUnit(d)
    ELSE d

\* "Safe" if number <= safe_threshold else "Review Required"
Status(d) ==
  IF ~Exceeds(ParseFloat(FirstNumber(d)), SafeThreshold(FirstUnit(d)))
    THEN "Safe" ELSE "Review Required"

\* faulty variant of Assess: dosage_numbers[0] is read without the emptiness
\* test, so a dosage without a number ends in the except branch
AssessUnchecked(med, d) ==
  IF HasNumber(d)
    THEN [medicine |-> med,
          status   |-> Status(d),
          info     |-> CurrentLabel \o d \o RecommendedLabel \o Recommended(d)]
    ELSE [medicine |-> med,
          status   |-> "Review Required",
          info     |-> CurrentLabel \o d \o UnableToCalculate]

\* the record appended for medications[i] with its current_dosage.  The
\* except branch ("Unable to calculate recommendation") is not taken: float()
\* accepts every string the number pattern matches, and nothing else in the
\* try block raises.
Assess(med, d) ==
  IF HasNumber(d)
    THEN [medicine |-> med,
          status   |-> Status(d),
          info     |-> CurrentLabel \o d \o RecommendedLabel \o Recommended(d)]
    ELSE [medicine |-> med,
          status   |-> "Review Required",
          info     |-> CurrentLabel \o d \o UnableToParse]

\* faulty variant of FileType: the two labels exchanged
FileTypeSwapped(ext) == IF ext = "txt" THEN Image ELSE TextFile

\* "text file" if file_extension == "txt" else "image"
FileType(ext) == IF ext = "txt" THEN TextFile ELSE Image

DefaultRecord(ext) ==
  [medicine |-> NoMedications,
   status   |-> "Review Required",
   info     |-> PleaseEnsure \o FileType(ext) \o ContainsClear]

\* faulty variant of WithDefault: the default record is appended unconditionally
WithDefaultAlways(a, ext) == Append(a, DefaultRecord(ext))

\* if not analysis: analysis.append({...})
WithDefault(a, ext) == IF a = <<>> THEN <<DefaultRecord(ext)>> ELSE a

(***************************************************************************)
(* Inputs                                                                  *)
(***************************************************************************)
\* the extensions of the uploads; the handler accepts png, jpg, jpeg and txt
Extensions == {"txt", "jpg", "pdf"}

AllowedExtensions == {"png", "jpg", "jpeg", "txt"}

\* a line feed, a form feed, the word U+00DF a U+03A3, a no-break space, the
\* number 600.5 in Arabic-Indic digits, a space, and UNITS written with
\* U+0130 and U+017F
UnicodeLine ==
  <<10, 12, 223, 97, 931, 160, 1638, 1632, 1632, 46, 1637, 32, 85, 78, 304, 84, 383>>

\* the colon form: a space, the word U+01C6 U+0130 U+00B2 (a digraph, the
\* dotted capital I and the superscript two), a colon, an em space, and 4 g
\* with the digit in Arabic-Indic
UnicodeColon == <<32, 454, 304, 178, 58, 8195, 1636, 103>>

\* a no-break space, a line feed and a vertical tab
Blank == <<160, 10, 11>>

\* fragments of prescription text; a text is a concatenation of fragments
Fragments ==
  { Codes("Amoxicillin 500mg"),
    Codes(" iBU: 600 MG"),
    Codes(" x 5.1  g"),
    Codes(" take 2 daily"),
    UnicodeLine,
    UnicodeColon,
    Blank }

\* the largest number of fragments in a text
MaxFragments == 3

\* the decoded text file, or the text the OCR model returns for an image
Texts ==
  UNION { {Concat(fs) : fs \in [1..n -> Fragments]} : n \in 0..MaxFragments }

(***************************************************************************)
(* State                                                                   *)
(***************************************************************************)
VARIABLES
  pc,              \* where the handler is: start, parse, assess, done, or how
                   \* it gave up: rejected, unreadable (both HTTP 400), failed
                   \* (HTTP 500)
  file_extension,  \* the extension taken from the file name
  output_text,     \* the decoded or recognised text
  lines,           \* text.split("\n")
  ln,              \* the line the for loop is at (from 1)
  pat,             \* the pattern the inner loop is at (1..3)
  medications,     \* parse_prescription_text's medications list
  dosages,         \* parse_prescription_text's dosages list
  found,           \* for each entry: the line, pattern and position that produced it
  idx,             \* enumerate(medications): the entry being assessed (from 1)
  analysis         \* the records built so far

vars == <<pc, file_extension, output_text, lines, ln, pat,
          medications, dosages, found, idx, analysis>>

Init ==
  /\ pc = "start"
  /\ file_extension \in Extensions
  /\ output_text = <<>>
  /\ lines = <<>>
  /\ ln = 1
  /\ pat = 1
  /\ medications = <<>>
  /\ dosages = <<>>
  /\ found = <<>>
  /\ idx = 1
  /\ analysis = <<>>

(***************************************************************************)
(* analyze_prescription, up to the call of parse_prescription_text         *)
(***************************************************************************)
\* raise HTTPException(status_code=400, ...)
Reject ==
  /\ pc = "start"
  /\ file_extension \notin AllowedExtensions
  /\ pc' = "rejected"
  /\ UNCHANGED <<file_extension, output_text, lines, ln, pat,
                 medications, dosages, found, idx, analysis>>

\* output_text = contents.decode(...); parse_prescription_text begins
ReadTextFile ==
  /\ pc = "start"
  /\ file_extension = "txt"
  /\ \E t \in Texts :
       /\ output_text' = t
       /\ lines' = SplitLines(t)
  /\ pc' = "parse"
  /\ UNCHANGED <<file_extension, ln, pat, medications, dosages, found, idx, analysis>>

\* Image.open(...).convert("RGB") raises:
\* raise HTTPException(status_code=400, detail=f"Failed to read image: {e}")
RefuseImage ==
  /\ pc = "start"
  /\ file_extension \in AllowedExtensions \ {"txt"}
  /\ pc' = "unreadable"
  /\ UNCHANGED <<file_extension, output_text, lines, ln, pat,
                 medications, dosages, found, idx, analysis>>

\* file.read(), or for an image processor(...), model.generate(...) or
\* processor.batch_decode(...), raises:
\* except Exception: raise HTTPException(status_code=500, ...)
FailAnalysis ==
  /\ pc = "start"
  /\ file_extension \in AllowedExtensions
  /\ pc' = "failed"
  /\ UNCHANGED <<file_extension, output_text, lines, ln, pat,
                 medications, dosages, found, idx, analysis>>

\* output_text = processor.batch_decode(...)[0]; parse_prescription_text begins
ReadImage ==
  /\ pc = "start"
  /\ file_extension \in AllowedExtensions \ {"txt"}
  /\ \E t \in Texts :
       /\ output_text' = t
       /\ lines' = SplitLines(t)
  /\ pc' = "parse"
  /\ UNCHANGED <<file_extension, ln, pat, medications, dosages, found, idx, analysis>>

(***************************************************************************)
(* parse_prescription_text                                                 *)
(***************************************************************************)
\* line = line.strip(); if not line: continue
SkipBlankLine ==
  /\ pc = "parse"
  /\ ln <= Len(lines)
  /\ Strip(lines[ln]) = <<>>
  /\ ln' = ln + 1
  /\ UNCHANGED <<pc, file_extension, output_text, lines, pat,
                 medications, dosages, found, idx, analysis>>

\* "for match in matches": what the matches of the current pattern append
AppendMatches(matches) ==
  /\ medications' = Extend(medications, NewMedications(matches))
  /\ dosages' = Extend(dosages, NewDosages(matches))
  /\ found' = Extend(found, [j \in DOMAIN Handled(matches) |->
                               <<ln, pat, Handled(matches)[j].start>>])

\* one pass of "for pattern in medication_patterns" over the current line
TryPattern ==
  /\ pc = "parse"
  /\ ln <= Len(lines)
  /\ Strip(lines[ln]) # <<>>
  /\ AppendMatches(FindAll(pat, Strip(lines[ln])))
  /\ IF pat < 3
       THEN pat' = pat + 1 /\ ln' = ln
       ELSE pat' = 1 /\ ln' = ln + 1
  /\ UNCHANGED <<pc, file_extension, output_text, lines, idx, analysis>>

\* return medications, dosages
ReturnEntries ==
  /\ pc = "parse"
  /\ ln > Len(lines)
  /\ pc' = "assess"
  /\ UNCHANGED <<file_extension, output_text, lines, ln, pat,
                 medications, dosages, found, idx, analysis>>

(***************************************************************************)
(* analyze_prescription, after the call                                    *)
(***************************************************************************)
\* one pass of "for i, med in enumerate(medications)"
AssessEntry ==
  /\ pc = "assess"
  /\ idx <= Len(medications)
  /\ analysis' = Append(analysis, Assess(medications[idx], CurrentDosage(dosages, idx)))
  /\ idx' = idx + 1
  /\ UNCHANGED <<pc, file_extension, output_text, lines, ln, pat,
                 medications, dosages, found>>

\* if not analysis: ...; return {...}
Respond ==
  /\ pc = "assess"
  /\ idx > Len(medications)
  /\ analysis' = WithDefault(analysis, file_extension)
  /\ pc' = "done"
  /\ UNCHANGED <<file_extension, output_text, lines, ln, pat,
                 medications, dosages, found, idx>>

Next ==
  \/ Reject
  \/ ReadTextFile
  \/ RefuseImage
  \/ FailAnalysis
  \/ ReadImage
  \/ SkipBlankLine
  \/ TryPattern
  \/ ReturnEntries
  \/ AssessEntry
  \/ Respond

Spec == Init /\ [][Next]_vars

(***************************************************************************)
(* The assessment loop on its own: analyze_prescription from line 98 on,   *)
(* started with any medications and dosages lists (not only those          *)
(* parse_prescription_text returns).  The loop reads file_extension only   *)
(* for the default record, so one extension is enough here.                *)
(***************************************************************************)
\* the numbers of the dosage inputs: each threshold and a value just above it
Numbers ==
  { Codes("5"), Codes("5.1"), Codes("50"), Codes("51"), Codes("500"), Codes("500.6") }

\* the digits of the numeral that float() gives as inf
HugeDigits == 400

\* what follows the number in a dosage input
Suffixes ==
  { Codes("mg"), Codes(" G"), Codes("ml") }

\* a numeral of so many digits that float() gives inf
Huge == [i \in 1..HugeDigits |-> Zero + 9]

\* dosage inputs with the unit mcg, with no unit, the 600mg of the examples,
\* two whose 0.9-fold (90.45, 131072.85) is a tie in decimal, three that
\* differ from a threshold by less and by more than float() keeps, one of
\* twenty digits, one that float() gives as inf, 501 mg in Arabic-Indic
\* digits after a no-break space, and 101 "units" written with U+0130 and
\* U+017F
OtherDosages ==
  { Codes("100mcg"),
    Codes("101mcg"),
    Codes("100"),
    Codes("101"),
    Codes("600mg"),
    Codes("100.5"),
    Codes("145636.5mg"),
    Codes("500.00000000000000001mg"),
    Codes("5.0000000000000001g"),
    Codes("500.000000000000028421709430404007434844970703125mg"),
    Codes("500.0000000000000284217094304040074348449707031251mg"),
    Codes("500.0000000000001mg"),
    Codes("99999999999999999999mg"),
    Huge \o Codes("mg"),
    <<160, 1637, 1632, 1633>> \o Codes("mG"),
    Codes("101 un") \o <<304>> \o Codes("t") \o <<383>> }

\* dosage inputs without any digit (U+00B2, the superscript two, is none)
Wordy == { Unknown, Codes("two mg"), <<178>> \o Codes(" mg"), <<>> }

DosageInputs ==
  {n \o u : n \in Numbers, u \in Suffixes} \cup OtherDosages \cup Wordy

Names == << Codes("Amoxicillin"), Codes("Ibu") >>

\* the medications list of n entries
MedicationInput(n) == [j \in 1..n |-> Names[((j - 1) % Len(Names)) + 1]]

\* the largest number of entries handed to the assessment loop
MaxEntries == 2

\* the dosages that follow the first one of a list: the loop keeps nothing
\* from one entry to the next
LaterDosages == { Codes("5mg"), Codes("500.6mg"), Codes("5.1 G"), Unknown }

\* the dosages lists of m entries
DosageLists(m) ==
  IF m = 0 THEN {<<>>}
  ELSE {<<d>> \o r : d \in DosageInputs, r \in [1..(m - 1) -> LaterDosages]}

InitAssess ==
  /\ pc = "assess"
  /\ file_extension = "txt"
  /\ output_text = <<>>
  /\ lines = <<>>
  /\ ln = 1
  /\ pat = 1
  /\ \E n \in 0..MaxEntries :
       /\ medications = MedicationInput(n)
       /\ \E m \in {k \in {n - 1, n} : k >= 0} : dosages \in DosageLists(m)
  /\ found = <<>>
  /\ idx = 1
  /\ analysis = <<>>

NextAssess ==
  \/ AssessEntry
  \/ Respond

SpecAssess == InitAssess /\ [][NextAssess]_vars

(***************************************************************************)
(* Properties                                                              *)
(***************************************************************************)
\* the raw dosage of the j-th entry, as the assessment loop reads it
RawDosage(j) == CurrentDosage(dosages, j)

\* the records that assess entries (the default record is none of them)
Assessed == 1..(idx - 1)

\* the stripped line the j-th entry was found on, and the word token matched there
EntryLine(j) == Strip(lines[found[j][1]])

EntryToken(j) ==
  LET line == EntryLine(j)
  IN  SubSeq(line, found[j][3], WordEnd(line, found[j][3]) - 1)

\* the entries a given pattern produced
ByPattern(k) == {j \in DOMAIN found : found[j][2] = k}

\* C1: the analysis returned has max(1, n) records, n being the number of
\* entries parse_prescription_text extracted from the text: one record per
\* entry, and exactly one record when there is no entry.
C1_RecordCount ==
  pc = "done" =>
    /\ Len(medications) = Len(found)
    /\ (Len(medications) = 0 => Len(analysis) = 1)
    /\ (Len(medications) > 0 => Len(analysis) = Len(medications))

C1_Witness ==
  /\ pc = "done"
  /\ Len(medications) = 3
  /\ Len(analysis) = 3

\* the decimal number a numeral writes: num / 10^scale
Written(n) ==
  LET dot == {p \in DOMAIN n : n[p] = FullStop}
  IN  [num   |-> DigitsValue(SelectSeq(n, IsDigit)),
       scale |-> IF dot = {} THEN 0 ELSE Len(n) - (CHOOSE p \in dot : TRUE)]

\* a * 2^g * 10^k
Scaled(a, g, k) == Mul(ShiftLeft(a, g), Power(Small(10), k, Limb), Limb)

\* the units of the threshold table of C2, each with its threshold t and with
\* the e for which 2^-e is half the step from the float t to the next float:
\* float() gives t or less for the numbers up to t + 2^-e and for no other
C2_Table ==
  { <<Codes("mg"), 500, 45>>, <<Codes("g"), 5, 51>>, <<Codes("ml"), 50, 48>> }

\* the row of a unit, compared in lower case: 100 when the table has none
C2_Row(u) ==
  LET unit == LowerStr(u)
  IN  IF \E r \in C2_Table : r[1] = unit
        THEN CHOOSE r \in C2_Table : r[1] = unit
        ELSE <<unit, 100, 47>>

\* the number w written is at most t
C2_AtMost(w, t) == ~Greater(w.num, Scaled(Small(t), 0, w.scale))

\* the number w written is at most t + 2^-e
C2_FloatAtMost(w, t, e) ==
  ~Greater(ShiftLeft(w.num, e),
           Scaled(Add(ShiftLeft(Small(t), e), <<1>>, Limb), 0, w.scale))

\* dosages whose magnitude is the threshold of their unit, two that are
\* written with more digits than a float holds and are the floats 500.0 and
\* 5.0, and 500 + 2^-45, half way to the next float
C2_AtThreshold ==
  { Codes("500mg"), Codes("5 G"), Codes("50ml"), Codes("100mcg"), Codes("100"),
    Codes("500.00000000000000001mg"), Codes("5.0000000000000001g"),
    Codes("500.000000000000028421709430404007434844970703125mg") }

\* dosages whose float is above the threshold of their unit; the last two
\* are 501 mG in Arabic-Indic digits and 101 units spelt with U+0130, U+017F
C2_AboveThreshold ==
  { Codes("500.6mg"), Codes("5.1 G"), Codes("51ml"), Codes("101mcg"), Codes("101"),
    Codes("500.0000000000001mg"), Codes("99999999999999999999mg"),
    Codes("500.0000000000000284217094304040074348449707031251mg"),
    Huge \o Codes("mg"),
    <<160, 1637, 1632, 1633>> \o Codes("mG"),
    Codes("101 un") \o <<304>> \o Codes("t") \o <<383>> }

\* C2 as stated: a record whose raw dosage contains a number is Safe exactly
\* when the first number written in the dosage is at most the threshold of
\* its unit (mg 500, g 5, ml 50, anything else 100, case-insensitively), and
\* Review Required otherwise: any magnitude above the threshold is Review
\* Required.
C2_StatusByNumber ==
  \A j \in Assessed :
    LET d == RawDosage(j)
    IN  (\E p \in DOMAIN d : IsDigit(d[p])) =>
          /\ analysis[j].status \in {"Safe", "Review Required"}
          /\ analysis[j].status = "Safe"
               <=> C2_AtMost(Written(FirstNumber(d)), C2_Row(FirstUnit(d))[2])

\* C2, amended: a record whose raw dosage contains a number is Safe exactly
\* when the float nearest to the first number is at most the threshold of its
\* unit (mg 500, g 5, ml 50, anything else 100, case-insensitively), that is
\* when the number written is at most the threshold plus half a float step
\* (500 + 2^-45, 5 + 2^-51, 50 + 2^-48, 100 + 2^-47), and Review Required
\* otherwise.  So a magnitude equal to the threshold is Safe, and one above
\* it is Review Required unless it exceeds the threshold by no more than
\* that: "500.00000000000000001mg" is Safe.
C2_StatusByThreshold ==
  \A j \in Assessed :
    LET d == RawDosage(j)
        r == C2_Row(FirstUnit(d))
    IN  (\E p \in DOMAIN d : IsDigit(d[p])) =>
          /\ analysis[j].status \in {"Safe", "Review Required"}
          /\ analysis[j].status = "Safe"
               <=> C2_FloatAtMost(Written(FirstNumber(d)), r[2], r[3])
          /\ C2_AtMost(Written(FirstNumber(d)), r[2]) => analysis[j].status = "Safe"
          /\ d \in C2_AtThreshold => analysis[j].status = "Safe"
          /\ d \in C2_AboveThreshold => analysis[j].status = "Review Required"

C2_Witness ==
  /\ pc = "done"
  /\ Len(analysis) = 2
  /\ RawDosage(1) = Codes("500.00000000000000001mg") /\ analysis[1].status = "Safe"
  /\ RawDosage(2) = Codes("500.6mg") /\ analysis[2].status = "Review Required"

C3_Text == Codes("Amoxicillin 500mg")

C3_Analysis ==
  << [medicine |-> Codes("Amoxicillin"),
      status   |-> "Safe",
      info     |-> Codes("Current: 500mg, Recommended: 500mg")] >>

\* C3: the text "Amoxicillin 500mg" is answered with exactly one record:
\* medicine "Amoxicillin", status Safe, info "Current: 500mg, Recommended: 500mg".
C3_SingleRecord ==
  (pc = "done" /\ output_text = C3_Text) => analysis = C3_Analysis

\* the texts of C4 and C7
C4_Current == Codes("Current: ")

C4_Unable == Codes(", Unable to parse dosage")

C7_Recommended == Codes(", Recommended: ")

\* C4: a raw dosage without any digit gives a Review Required record with
\* info "Current: {rawDosage}, Unable to parse dosage", and the other entries
\* of the request are assessed all the same.
C4_UnparseableDosage ==
  /\ \A j \in Assessed :
       LET d == RawDosage(j)
       IN  (\A p \in DOMAIN d : ~IsDigit(d[p])) =>
             /\ analysis[j].status = "Review Required"
             /\ analysis[j].info = C4_Current \o d \o C4_Unable
  /\ pc = "done" =>
       \A j \in DOMAIN medications :
         /\ j \in DOMAIN analysis
         /\ analysis[j].medicine = medications[j]

C4_Witness ==
  /\ pc = "done"
  /\ Len(analysis) = 2
  /\ analysis[1].status = "Review Required"
  /\ analysis[1].info = Codes("Current: two mg, Unable to parse dosage")
  /\ analysis[2].status = "Safe"
  /\ analysis[2].info = Codes("Current: 5mg, Recommended: 5mg")

\* the texts of the default record as C5 words it
C5_Medicine == Codes("No medications detected")

C5_TextFile ==
  Codes("Please ensure the text file contains clear prescription information")

C5_Image ==
  Codes("Please ensure the image contains clear prescription information")

C5_Default ==
  [medicine |-> C5_Medicine,
   status   |-> "Review Required",
   info     |-> IF file_extension = "txt" THEN C5_TextFile ELSE C5_Image]

\* C5: the "No medications detected" record is the whole analysis exactly
\* when no entry was extracted (as for an empty or whitespace-only text), and
\* it never stands in an analysis that has a record for an extracted entry.
C5_DefaultOnlyWhenEmpty ==
  /\ pc = "done" =>
       /\ medications = <<>> <=> analysis = <<C5_Default>>
       /\ (\A p \in DOMAIN output_text : IsSpace(output_text[p]))
            => analysis = <<C5_Default>>
  /\ medications # <<>> =>
       \A j \in DOMAIN analysis : analysis[j].medicine # C5_Medicine
  /\ pc # "done" =>
       \A j \in DOMAIN analysis : analysis[j].medicine # C5_Medicine

C5_Witness ==
  /\ pc = "done"
  /\ output_text = Blank
  /\ file_extension = "jpg"
  /\ analysis =
       << [medicine |-> C5_Medicine, status |-> "Review Required", info |-> C5_Image] >>

\* the example of C6
C6_Token == Codes("iBU")

C6_Name == Codes("Ibu")

\* C6 as stated: the medicine name is the matched word token with only its
\* first character capitalised, the other characters unchanged.
C6_RestUnchanged ==
  \A j \in DOMAIN medications :
    LET token == EntryToken(j)
    IN  medications[j] = ToTitleFull(Head(token)) \o Tail(token)

\* C6, amended: the medicine name is the matched word token with its first
\* character in title case and every other character lower-cased, as
\* str.capitalize() does: "iBU" becomes "Ibu", the token U+00DF a U+03A3
\* becomes S s a U+03C2, and U+01C6 U+0130 U+00B2 becomes U+01C5 i U+0307
\* U+00B2.
C6_RestLowered ==
  \A j \in DOMAIN medications :
    LET token == EntryToken(j)
        rest  == [i \in 1..(Len(token) - 1) |-> LowerAt(token, i + 1)]
    IN  /\ token # <<>>
        /\ medications[j] = ToTitleFull(token[1]) \o Concat(rest)
        /\ token = C6_Token => medications[j] = C6_Name
        /\ token = <<223, 97, 931>> => medications[j] = <<83, 115, 97, 962>>
        /\ token = <<454, 304, 178>> => medications[j] = <<453, 105, 775, 178>>

C6_Witness ==
  /\ pc = "done"
  /\ \E j \in DOMAIN medications :
       /\ EntryToken(j) = C6_Token
       /\ medications[j] = C6_Name
       /\ analysis[j].medicine = C6_Name
  /\ \E j \in DOMAIN medications :
       /\ EntryToken(j) = <<223, 97, 931>>
       /\ analysis[j].medicine = <<83, 115, 97, 962>>
  /\ \E j \in DOMAIN medications :
       /\ EntryToken(j) = <<454, 304, 178>>
       /\ analysis[j].medicine = <<453, 105, 775, 178>>

\* the examples of C7: a raw dosage and the info of its record; the last two
\* are 501 mG in Arabic-Indic digits after a no-break space, and 101 units
\* spelt with U+0130 and U+017F
C7_Examples ==
  { <<Codes("600mg"), Codes("Current: 600mg, Recommended: 540.0 mg")>>,
    <<Codes("5.1 G"), Codes("Current: 5.1 G, Recommended: 4.6 G")>>,
    <<Codes("500.6mg"), Codes("Current: 500.6mg, Recommended: 450.5 mg")>>,
    <<Codes("101"), Codes("Current: 101, Recommended: 90.9 units")>>,
    <<Codes("100.5"), Codes("Current: 100.5, Recommended: 90.5 units")>>,
    <<Codes("145636.5mg"), Codes("Current: 145636.5mg, Recommended: 131072.9 mg")>>,
    <<Codes("500.0000000000001mg"),
      Codes("Current: 500.0000000000001mg, Recommended: 450.0 mg")>>,
    <<Codes("500.00000000000000001mg"),
      Codes("Current: 500.00000000000000001mg, Recommended: 500.00000000000000001mg")>>,
    <<Codes("5.0000000000000001g"),
      Codes("Current: 5.0000000000000001g, Recommended: 5.0000000000000001g")>>,
    <<Codes("99999999999999999999mg"),
      Codes("Current: 99999999999999999999mg, Recommended: 90000000000000000000.0 mg")>>,
    <<Huge \o Codes("mg"),
      Codes("Current: ") \o Huge \o Codes("mg, Recommended: inf mg")>>,
    << <<160, 1637, 1632, 1633>> \o Codes("mG"),
       Codes("Current: ") \o <<160, 1637, 1632, 1633>> \o Codes("mG, Recommended: 450.9 mG") >>,
    << Codes("101 un") \o <<304>> \o Codes("t") \o <<383>>,
       Codes("Current: 101 un") \o <<304>> \o Codes("t") \o <<383>>
         \o Codes(", Recommended: 90.9 un") \o <<304>> \o Codes("t") \o <<383>> >> }

C7_Inf == Codes("inf")

\* what the info of the j-th record has between "Current: {rawDosage},
\* Recommended: " and the space before the unit
C7_Amount(j) ==
  SubSeq(analysis[j].info,
         Len(C4_Current) + Len(RawDosage(j)) + Len(C7_Recommended) + 1,
         Len(analysis[j].info) - Len(FirstUnit(RawDosage(j))) - 1)

\* the info of the j-th record is "Current: {rawDosage}, Recommended: ", an
\* amount, a space and the extracted unit
C7_Shape(j) ==
  /\ Len(analysis[j].info) >
       Len(C4_Current) + Len(RawDosage(j)) + Len(C7_Recommended)
         + Len(FirstUnit(RawDosage(j)))
  /\ analysis[j].info =
       C4_Current \o RawDosage(j) \o C7_Recommended
         \o C7_Amount(j) \o <<Space>> \o FirstUnit(RawDosage(j))

\* r is a decimal with one digit after the point and no needless zero in
\* front; the tenths it counts
C7_OneDecimal(r) ==
  /\ Len(r) >= 3
  /\ r[Len(r) - 1] = FullStop
  /\ \A i \in DOMAIN r : i # Len(r) - 1 => r[i] \in Zero..(Zero + 9)
  /\ Len(r) > 3 => r[1] # Zero

C7_TenthsOf(r) == DigitsValue(SelectSeq(r, IsDigit))

\* number <= upper and grid <= lower, and m even when either is an equality
C7_Bounded(number, grid, upper, lower, m, tieToEven) ==
  /\ ~Greater(number, upper)
  /\ ~Greater(grid, lower)
  /\ (tieToEven /\ (number = upper \/ grid = lower)) => (m = <<>> \/ m[1] % 2 = 0)

C7_Between(number, grid, under, over, m, tieToEven) ==
  C7_Bounded(number, grid, Add(grid, under, Limb), Add(number, over, Limb), m, tieToEven)

C7_NearAt(a, g, k, m, e, over, under, tieToEven, lo) ==
  C7_Between(ShiftLeft(a, g - lo), Scaled(m, e - lo, k),
             Scaled(<<1>>, under - lo, k), Scaled(<<1>>, over - lo, k), m, tieToEven)

\* m * 2^e lies by at most 2^over above and by at most 2^under below the
\* number a * 2^g / 10^k, for over and under below e; with tieToEven, m is
\* even when it lies exactly that far away
C7_Near(a, g, k, m, e, over, under, tieToEven) ==
  C7_NearAt(a, g, k, m, e, over, under, tieToEven, Min(g, Min(over, under)))

\* a * 2^g / 10^k is as large as or larger than the midpoint of the largest
\* double and 2^1024, (2^54 - 1) * 2^970
C7_OverflowsAt(a, g, k, lo) ==
  ~Greater(Scaled(<<1>>, 1024 - lo, k),
           Add(ShiftLeft(a, g - lo), Scaled(<<1>>, 970 - lo, k), Limb))

\* the significand m of a double with the last bit at 2^e: of 53 bits, or of
\* fewer with e = -1074
C7_Normal(m, e) ==
  /\ e >= -1074
  /\ BitLen(m) <= 53
  /\ BitLen(m) + e <= 1024
  /\ BitLen(m) < 53 => e = -1074

\* the double m * 2^e, in that form, is a double nearest to a * 2^g / 10^k,
\* and the one with the even significand if two are: the doubles next to it
\* are 2^e away, but the one below 2^52 * 2^e is 2^(e-1) away
C7_NearestNormal(a, g, k, m, e) ==
  /\ C7_Normal(m, e)
  /\ C7_Near(a, g, k, m, e,
             IF BitLen(m) = 53 /\ LowZero(m, 52) /\ e > -1074 THEN e - 2 ELSE e - 1,
             e - 1, TRUE)

\* how far the significand of the finite double x can be shifted up
C7_Slack(x) ==
  IF x.m = <<>> THEN x.e + 1074 ELSE Min(53 - BitLen(x.m), x.e + 1074)

\* x is the double float arithmetic gives for a * 2^g / 10^k: the nearest
\* one, a tie to the even significand, inf from the midpoint above the
\* largest double on
C7_NearestDouble(x, a, g, k) ==
  IF x.inf THEN C7_OverflowsAt(a, g, k, Min(g, 970))
  ELSE /\ C7_Slack(x) >= 0
       /\ C7_NearestNormal(a, g, k, ShiftLeft(x.m, C7_Slack(x)), x.e - C7_Slack(x))

\* p is the double float arithmetic gives for the product of x and c
C7_ProductDouble(p, x, c) ==
  IF x.inf THEN p.inf
  ELSE C7_NearestDouble(p, Mul(x.m, c.m, Limb), x.e + c.e, 0)

\* r is the double p to one decimal: inf for inf, else the tenths nearest to
\* p, the even ones if two are
C7_Formats(r, p) ==
  IF p.inf THEN r = C7_Inf
  ELSE /\ C7_OneDecimal(r)
       /\ C7_Near(MulSmall(p.m, 10, Limb), p.e, 0, C7_TenthsOf(r), 0, -1, -1, TRUE)

\* the amount r is the float product of the number w written and 0.9 to one
\* decimal, x, c and p being the floats of w, of 0.9 and of their product
C7_FloatProduct(r, w, x, c, p) ==
  /\ C7_NearestDouble(x, w.num, 0, w.scale)
  /\ C7_NearestDouble(c, <<9>>, 0, 1)
  /\ ~c.inf
  /\ C7_ProductDouble(p, x, c)
  /\ C7_Formats(r, p)

\* the amount r is a decimal with one digit after the point that is nearest
\* to nine tenths of the number w written: 9 * num / 10^scale tenths
C7_ExactTenths(r, w) ==
  /\ C7_OneDecimal(r)
  /\ C7_Near(MulSmall(w.num, 9, Limb), 0, w.scale, C7_TenthsOf(r), 0, -1, -1, FALSE)

\* C7 as stated: for a raw dosage with a number the info is "Current:
\* {rawDosage}, Recommended: {recommended}"; recommended is the raw dosage
\* itself in a Safe record, and in a Review Required record it is the
\* magnitude written times 0.9 to one decimal, a space and the extracted
\* unit.
C7_ExactProduct ==
  \A j \in Assessed :
    LET d == RawDosage(j)
    IN  (\E p \in DOMAIN d : IsDigit(d[p])) =>
          /\ analysis[j].status = "Safe" =>
               analysis[j].info = C4_Current \o d \o C7_Recommended \o d
          /\ analysis[j].status = "Review Required" =>
               /\ C7_Shape(j)
               /\ C7_ExactTenths(C7_Amount(j), Written(FirstNumber(d)))

\* C7, amended: for a raw dosage with a number the info is "Current:
\* {rawDosage}, Recommended: {recommended}"; recommended is the raw dosage
\* itself in a Safe record, and in a Review Required record it is an amount,
\* a space and the extracted unit.  The amount is computed in floats: the
\* float nearest to the number written is multiplied by the float nearest to
\* 0.9, the product rounded to the nearest float, and that float rounded to
\* the nearest decimal with one digit after the point (ties go to the even
\* neighbour each time); it is "inf" when the float of the number is inf.
\* So "600mg" gives "540.0 mg", "145636.5mg" gives "131072.9 mg" and
\* "99999999999999999999mg" gives "90000000000000000000.0 mg".
C7_Recommendation ==
  \A j \in Assessed :
    LET d == RawDosage(j)
    IN  (\E p \in DOMAIN d : IsDigit(d[p])) =>
          /\ analysis[j].status = "Safe" =>
               analysis[j].info = C4_Current \o d \o C7_Recommended \o d
          /\ analysis[j].status = "Review Required" =>
               /\ C7_Shape(j)
               /\ C7_FloatProduct(C7_Amount(j), Written(FirstNumber(d)),
                                  ParseFloat(FirstNumber(d)), NineTenths,
                                  Times(ParseFloat(FirstNumber(d)), NineTenths))
          /\ \A e \in C7_Examples : d = e[1] => analysis[j].info = e[2]

C7_Witness ==
  /\ pc = "done"
  /\ Len(analysis) = 2
  /\ RawDosage(1) = Codes("99999999999999999999mg")
  /\ analysis[1].info =
       Codes("Current: 99999999999999999999mg, Recommended: 90000000000000000000.0 mg")
  /\ RawDosage(2) = Codes("5.1 G")
  /\ analysis[2].info = Codes("Current: 5.1 G, Recommended: 4.6 G")

\* <<line, pattern, position>> a before b
C8_Before(a, b) ==
  \/ a[1] < b[1]
  \/ a[1] = b[1] /\ a[2] < b[2]
  \/ a[1] = b[1] /\ a[2] = b[2] /\ a[3] < b[3]

\* C8: the entries, and so the records, stand in the order of discovery: by
\* line, within a line by pattern (1, 2, 3), within a pattern from left to
\* right; and the i-th record assesses the i-th entry.
C8_DiscoveryOrder ==
  /\ Len(found) = Len(medications)
  /\ \A j, k \in DOMAIN found : j < k => C8_Before(found[j], found[k])
  /\ \A j \in Assessed : analysis[j].medicine = medications[j]
  /\ pc = "done" =>
       \A j \in DOMAIN found :
         LET line == EntryLine(j)
             m == MatchAt(found[j][2], line, found[j][3])
         IN  /\ m.ok
             /\ medications[j] = Capitalize(m.groups[1])
             /\ analysis[j] = Assess(medications[j], dosages[j])

C8_Witness ==
  /\ pc = "done"
  /\ Len(analysis) = Len(found)
  /\ \E j, k \in DOMAIN found :
       j < k /\ found[j][1] = found[k][1] /\ found[j][2] = found[k][2]
  /\ \E j, k \in DOMAIN found :
       j < k /\ found[j][1] = found[k][1] /\ found[j][2] < found[k][2]
         /\ found[j][3] > found[k][3]
  /\ \E j, k \in DOMAIN found : j < k /\ found[j][1] < found[k][1]

\* the first and the third pattern match the same substrings of every line,
\* and each entry of the one has its twin from the other
C9_Twins ==
  /\ \A l \in DOMAIN lines :
       LET a == FindAll(1, Strip(lines[l]))
           c == FindAll(3, Strip(lines[l]))
       IN  /\ Len(a) = Len(c)
           /\ \A j \in DOMAIN a : a[j].start = c[j].start /\ a[j].end = c[j].end
  /\ \A k \in {1, 3} : \A j \in ByPattern(k) :
       \E t \in ByPattern(4 - k) :
         /\ found[t][1] = found[j][1]
         /\ found[t][3] = found[j][3]
         /\ medications[t] = medications[j]
         /\ FirstNumber(dosages[t]) = FirstNumber(dosages[j])
         /\ FirstUnit(dosages[t]) = FirstUnit(dosages[j])

\* C9 as stated: the first and the third pattern match the same substrings,
\* and a text with k matches of the first pattern and none of the colon form
\* yields exactly 2k records.
C9_TwiceTheMatches ==
  pc = "done" =>
    /\ C9_Twins
    /\ ByPattern(2) = {} => Len(analysis) = 2 * Cardinality(ByPattern(1))

\* C9, amended: the first and the third pattern match the same substrings,
\* and a text with k matches of the first pattern and none of the colon form
\* yields exactly 2k entries: 2k records when k >= 1, the single default
\* record when k = 0.
C9_TwiceTheEntries ==
  pc = "done" =>
    /\ C9_Twins
    /\ ByPattern(2) = {} =>
         /\ Len(medications) = 2 * Cardinality(ByPattern(1))
         /\ ByPattern(1) # {} => Len(analysis) = 2 * Cardinality(ByPattern(1))
         /\ ByPattern(1) = {} => Len(analysis) = 1

C9_Witness ==
  /\ pc = "done"
  /\ ByPattern(2) = {}
  /\ Cardinality(ByPattern(1)) = 2
  /\ Len(analysis) = 4
  /\ \E j \in ByPattern(1) : \E t \in ByPattern(3) :
       /\ found[t][3] = found[j][3]
       /\ dosages[j] = Codes("5.1  g")
       /\ dosages[t] = Codes("5.1 g")

C10_Unknown == Codes("Current: Unknown, Unable to parse dosage")

\* C10: medications and dosages always have the same length, so the loop
\* never falls back to "Unknown" and no record reads "Current: Unknown,
\* Unable to parse dosage".
C10_ListsAligned ==
  /\ Len(medications) = Len(dosages)
  /\ \A j \in Assessed :
       /\ j <= Len(dosages)
       /\ RawDosage(j) = dosages[j]
  /\ \A j \in DOMAIN analysis :
       analysis[j].info # C10_Unknown

C10_Witness ==
  /\ pc = "done"
  /\ Len(analysis) = 3
  /\ ByPattern(2) # {}
  /\ ByPattern(3) # {}

====
